---------------------------- MODULE Spec2Model ----------------------------
(***************************************************************************)
(* omni2tree: identifier reconciliation, gene selection and metadata       *)
(* validation.  Text is modelled as a sequence of one-character strings.   *)
(*   src/utils/validate_metadata.py                                        *)
(*   src/utils/prepare_metadata_o2t_view.py                                *)
(*   src/scripts/entropy_msa_og_gene_table.py                              *)
(*   src/scripts/msa_to_position_table.py                                  *)
(***************************************************************************)
EXTENDS Integers, Sequences, FiniteSets, TLC

VARIABLES
    \* Identifier Normalizer driver
    npc, nIn, nOut1, nOut2,
    \* tree relabeler (prepare_metadata_o2t_view.rewrite_tree_labels)
    tpc, terminals, code_to_preferred_label, tree_code_to_taxon, final_names, clade_names,
    \* gene selector (entropy_msa_og_gene_table.build_mapping)
    gpc, og_df, keep_empty_gene, work, og_order, records, mapping_df,
    \* label lookup builder (msa_to_position_table.build_metadata_label_lookup)
    lpc, metadata, five_letter_map, row_i, candidate_ids, output_label, lookup, collisions,
    \* metadata validator (validate_metadata.main)
    vpc, csv_rows, meta, ref_lines, line_i, labelkey_to_code, code_to_taxon, seen_codes,
    index, cov_dir, readset_names, error, exit_status, ran,
    \* permissive reference code indexes (load_five_letter_codes, load_five_letter)
    ipc, five_letter_lines, msa_codes, prep_codes, strict_codes,
    \* row-stream relabeling (msa_to_position_table.main)
    rpc, msa_records, metadata_given, metadata_label_lookup, position_df,
    \* metadata view builder (prepare_metadata_o2t_view.main before the tree)
    ppc, prep_csv, prep_ref, validated, prep_error, prep_meta, prep_index, out_rows,
    prep_preferred

normVars == <<npc, nIn, nOut1, nOut2>>
treeVars == <<tpc, terminals, code_to_preferred_label, tree_code_to_taxon, final_names,
              clade_names>>
geneVars == <<gpc, og_df, keep_empty_gene, work, og_order, records, mapping_df>>
lookupVars == <<lpc, metadata, five_letter_map, row_i, candidate_ids, output_label, lookup,
                collisions>>
valVars == <<vpc, csv_rows, meta, ref_lines, line_i, labelkey_to_code, code_to_taxon,
             seen_codes, index, cov_dir, readset_names, error, exit_status, ran>>
indexVars == <<ipc, five_letter_lines, msa_codes, prep_codes, strict_codes>>
relabelVars == <<rpc, msa_records, metadata_given, metadata_label_lookup, position_df>>
prepVars == <<ppc, prep_csv, prep_ref, validated, prep_error, prep_meta, prep_index, out_rows,
              prep_preferred>>
restVars == <<indexVars, relabelVars, prepVars>>
vars == <<normVars, treeVars, geneVars, lookupVars, valVars, restVars>>

-----------------------------------------------------------------------------
(* Characters.  AsciiOrder lists the characters the model uses in code     *)
(* point order, so that comparing ranks is comparing code points.          *)

AsciiOrder ==
    <<" ", "#", ",", "0", "1", "2", "3", "4", "5", "6", "7", "8", "9",
      "A", "B", "C", "D", "E", "F", "G", "H", "I", "J", "K", "L", "M",
      "N", "O", "P", "Q", "R", "S", "T", "U", "V", "W", "X", "Y", "Z", "_",
      "a", "b", "c", "d", "e", "f", "g", "h", "i", "j", "k", "l", "m",
      "n", "o", "p", "q", "r", "s", "t", "u", "v", "w", "x", "y", "z">>

UpperChars ==
    <<"A", "B", "C", "D", "E", "F", "G", "H", "I", "J", "K", "L", "M",
      "N", "O", "P", "Q", "R", "S", "T", "U", "V", "W", "X", "Y", "Z">>
LowerChars ==
    <<"a", "b", "c", "d", "e", "f", "g", "h", "i", "j", "k", "l", "m",
      "n", "o", "p", "q", "r", "s", "t", "u", "v", "w", "x", "y", "z">>
DigitChars == <<"0", "1", "2", "3", "4", "5", "6", "7", "8", "9">>

Range(s) == {s[i] : i \in DOMAIN s}

Ord(c) == CHOOSE i \in DOMAIN AsciiOrder : AsciiOrder[i] = c

IsDigit(c) == c \in Range(DigitChars)
IsAlpha(c) == c \in Range(UpperChars) \cup Range(LowerChars)
IsAlnum(c) == IsAlpha(c) \/ IsDigit(c)
IsWord(c) == IsAlnum(c) \/ c = "_"

\* str.lower / str.casefold on one ASCII character
LowerChar(c) ==
    IF c \in Range(UpperChars)
    THEN LowerChars[CHOOSE i \in DOMAIN UpperChars : UpperChars[i] = c]
    ELSE c

Lower(s) == [i \in DOMAIN s |-> LowerChar(s[i])]

\* Python's str < str : lexicographic on code points, a proper prefix first
RECURSIVE StrLess(_, _)
StrLess(a, b) ==
    IF b = <<>> THEN FALSE
    ELSE IF a = <<>> THEN TRUE
    ELSE IF Head(a) # Head(b) THEN Ord(Head(a)) < Ord(Head(b))
    ELSE StrLess(Tail(a), Tail(b))

StrLeq(a, b) == a = b \/ StrLess(a, b)

\* str.strip() for the one whitespace character of the model
RECURSIVE LStrip(_, _)
LStrip(s, c) == IF s # <<>> /\ Head(s) = c THEN LStrip(Tail(s), c) ELSE s

RECURSIVE RStrip(_, _)
RStrip(s, c) ==
    IF s # <<>> /\ s[Len(s)] = c THEN RStrip(SubSeq(s, 1, Len(s) - 1), c) ELSE s

StripChar(s, c) == RStrip(LStrip(s, c), c)
Strip(s) == StripChar(s, " ")

EndsWith(s, suf) ==
    Len(s) >= Len(suf) /\ SubSeq(s, Len(s) - Len(suf) + 1, Len(s)) = suf

DropLast(s, n) == SubSeq(s, 1, Len(s) - n)

\* f"{n}" for a natural number
RECURSIVE Decimal(_)
Decimal(n) ==
    IF n < 10 THEN <<DigitChars[n + 1]>>
    ELSE Decimal(n \div 10) \o <<DigitChars[(n % 10) + 1]>>

\* all texts over an alphabet up to a length
RECURSIVE TextsOfLen(_, _)
TextsOfLen(alphabet, n) ==
    IF n = 0 THEN {<<>>}
    ELSE {Append(t, c) : t \in TextsOfLen(alphabet, n - 1), c \in alphabet}

Texts(alphabet, n) == UNION {TextsOfLen(alphabet, k) : k \in 0..n}

-----------------------------------------------------------------------------
(* Identifier Normalizer                                                   *)

\* re.sub(r"[^A-Za-z0-9]", "", text or "")
clean_alnum(text) == SelectSeq(text, IsAlnum)

\* re.sub(r"_(1|2)$", "", text)
StripPair12(text) ==
    IF EndsWith(text, <<"_", "1">>) \/ EndsWith(text, <<"_", "2">>)
    THEN DropLast(text, 2)
    ELSE text

\* re.sub(r"[^A-Za-z0-9_]+", "_", text): each maximal run becomes one "_"
RECURSIVE SubNonWordRuns(_, _)
SubNonWordRuns(text, inRun) ==
    IF text = <<>> THEN <<>>
    ELSE IF IsWord(Head(text)) THEN <<Head(text)>> \o SubNonWordRuns(Tail(text), FALSE)
    ELSE IF inRun THEN SubNonWordRuns(Tail(text), TRUE)
    ELSE <<"_">> \o SubNonWordRuns(Tail(text), TRUE)

\* re.sub(r"_+", "_", text)
RECURSIVE SubUnderscoreRuns(_, _)
SubUnderscoreRuns(text, inRun) ==
    IF text = <<>> THEN <<>>
    ELSE IF Head(text) # "_" THEN <<Head(text)>> \o SubUnderscoreRuns(Tail(text), FALSE)
    ELSE IF inRun THEN SubUnderscoreRuns(Tail(text), TRUE)
    ELSE <<"_">> \o SubUnderscoreRuns(Tail(text), TRUE)

NA == <<"N", "A">>

tree_label_sanitize(text) ==
    LET t1 == StripPair12(text)
        t2 == SubNonWordRuns(t1, FALSE)
        t3 == StripChar(SubUnderscoreRuns(t2, FALSE), "_")
    IN  IF t3 = <<>> THEN NA ELSE t3

\* mutant of normalize_msa_id: the suffix is not removed
normalize_msa_id_keep(sample_id) == Strip(sample_id)

\* re.sub(r'(_R[12]|_[12])$', '', str(sample_id).strip())
normalize_msa_id(sample_id) ==
    LET normalized == Strip(sample_id)
    IN  IF EndsWith(normalized, <<"_", "R", "1">>) \/ EndsWith(normalized, <<"_", "R", "2">>)
        THEN DropLast(normalized, 3)
        ELSE IF EndsWith(normalized, <<"_", "1">>) \/ EndsWith(normalized, <<"_", "2">>)
        THEN DropLast(normalized, 2)
        ELSE normalized

\* stripPairSuffix as stated: one trailing _R1, _R2, _1 or _2 is removed
StripPairSuffix(text) ==
    IF \E suf \in {<<"_", "R", "1">>, <<"_", "R", "2">>} : EndsWith(text, suf)
    THEN SubSeq(text, 1, Len(text) - 3)
    ELSE IF \E suf \in {<<"_", "1">>, <<"_", "2">>} : EndsWith(text, suf)
    THEN SubSeq(text, 1, Len(text) - 2)
    ELSE text

\* label_final = re.sub(r"[^A-Za-z0-9_]", "", label_safe) or "NA"
label_final_of(raw_label) ==
    LET label_safe == tree_label_sanitize(raw_label)
        kept == SelectSeq(label_safe, IsWord)
    IN  IF kept = <<>> THEN NA ELSE kept


-----------------------------------------------------------------------------
(* Python dict helpers: a dict is a function on its key set.               *)

EmptyDict == <<>>
DictSet(d, k, v) == [x \in (DOMAIN d) \cup {k} |-> IF x = k THEN v ELSE d[x]]

\* all sequences over a set up to a length
RECURSIVE SeqsOfLen(_, _)
SeqsOfLen(S, n) ==
    IF n = 0 THEN {<<>>}
    ELSE {Append(t, x) : t \in SeqsOfLen(S, n - 1), x \in S}

SeqsUpTo(S, n) == UNION {SeqsOfLen(S, k) : k \in 0..n}

-----------------------------------------------------------------------------
(* Reference code table (five_letter_taxon.tsv).  A line is the tuple of   *)
(* its tab-separated parts after line.strip(); a blank line has no parts.  *)

IsBlankLine(line) == line = <<>> \/ line = << <<>> >>
IsCommentLine(line) == line # <<>> /\ line[1] # <<>> /\ line[1][1] = "#"
IsEntryLine(line) == ~IsBlankLine(line) /\ ~IsCommentLine(line)

\* prepare_metadata_o2t_view.load_five_letter: no duplicate checks, every
\* entry line assigns both maps; a line without exactly 2 parts raises
RECURSIVE PrepLoadFrom(_, _, _)
PrepLoadFrom(lines, k2c, c2t) ==
    IF lines = <<>> THEN [ok |-> TRUE, labelkey_to_code |-> k2c, code_to_taxon |-> c2t]
    ELSE LET line == Head(lines) IN
         IF ~IsEntryLine(line) THEN PrepLoadFrom(Tail(lines), k2c, c2t)
         ELSE IF Len(line) # 2
         THEN [ok |-> FALSE, labelkey_to_code |-> EmptyDict, code_to_taxon |-> EmptyDict]
         ELSE LET taxon == Strip(line[1])
                  code == Strip(line[2])
              IN  PrepLoadFrom(Tail(lines), DictSet(k2c, clean_alnum(taxon), code),
                               DictSet(c2t, code, taxon))

prep_load_five_letter(lines) == PrepLoadFrom(lines, EmptyDict, EmptyDict)

\* build_output_metadata: the code_to_preferred_label it returns
RECURSIVE PreferredFrom(_, _, _)
PreferredFrom(rows, k2c, pref) ==
    IF rows = <<>> THEN pref
    ELSE LET raw_label == Head(rows).label
             label_key == clean_alnum(raw_label)
         IN  IF label_key \in DOMAIN k2c
             THEN PreferredFrom(Tail(rows), k2c,
                                DictSet(pref, k2c[label_key], label_final_of(raw_label)))
             ELSE PreferredFrom(Tail(rows), k2c, pref)

build_preferred(rows, k2c) == PreferredFrom(rows, k2c, EmptyDict)

-----------------------------------------------------------------------------
(* Tree relabeler                                                          *)

\* str.split(sep) on a one-character separator
RECURSIVE SplitOn(_, _)
SplitOn(s, sep) ==
    IF s = <<>> THEN << <<>> >>
    ELSE LET rest == SplitOn(Tail(s), sep) IN
         IF Head(s) = sep THEN << <<>> >> \o rest
         ELSE << <<Head(s)>> \o rest[1] >> \o Tail(rest)

\* mutant of FirstCodeToken: the scan does not stop at the first hit
LastCodeToken(tokens, c2t) ==
    IF \E i \in DOMAIN tokens : tokens[i] \in DOMAIN c2t
    THEN CHOOSE i \in DOMAIN tokens :
            /\ tokens[i] \in DOMAIN c2t
            /\ \A j \in (i + 1)..Len(tokens) : tokens[j] \notin DOMAIN c2t
    ELSE 0

\* the first token that is a key of the dict, or 0
FirstCodeToken(tokens, c2t) ==
    IF \E i \in DOMAIN tokens : tokens[i] \in DOMAIN c2t
    THEN CHOOSE i \in DOMAIN tokens :
            /\ tokens[i] \in DOMAIN c2t
            /\ \A j \in 1..(i - 1) : tokens[j] \notin DOMAIN c2t
    ELSE 0

\* the body of the loop over terminals in rewrite_tree_labels
new_name_of(original, c2t, pref) ==
    LET stripped == StripPair12(original)
        tokens == SplitOn(stripped, "_")
        hit == FirstCodeToken(tokens, c2t)
    IN  IF hit # 0
        THEN IF tokens[hit] \in DOMAIN pref THEN pref[tokens[hit]]
             ELSE tree_label_sanitize(c2t[tokens[hit]])
        ELSE tree_label_sanitize(stripped)

ensure_unique_tree_labels(labels) ==
    [i \in DOMAIN labels |->
        LET count == Cardinality({j \in 1..i : labels[j] = labels[i]})
        IN  IF count = 1 THEN labels[i]
            ELSE labels[i] \o <<"_">> \o Decimal(count)]

-----------------------------------------------------------------------------
(* Metadata validator: validate_metadata.py                                *)

T_label == <<"l", "a", "b", "e", "l">>
T_accession == <<"a", "c", "c", "e", "s", "s", "i", "o", "n">>
T_character == <<"c", "h", "a", "r", "a", "c", "t", "e", "r">>

VALID_TYPES == {<<"c", "h", "a", "r", "a", "c", "t", "e", "r">>, <<"d", "a", "t", "e">>, <<"n", "u", "m", "e", "r", "i", "c">>, <<"i", "n", "t", "e", "g", "e", "r">>}

NoError == [kind |-> "none", stage |-> 0, names |-> <<>>]
Err(kind, stage, names) == [kind |-> kind, stage |-> stage, names |-> names]

\* sorted(S) for a set of texts
RECURSIVE SortTexts(_)
SortTexts(S) ==
    IF S = {} THEN <<>>
    ELSE LET least == CHOOSE x \in S : \A y \in S : StrLeq(x, y)
         IN  <<least>> \o SortTexts(S \ {least})

\* {col.lower(): col for col in header}: a later column of the same lowered
\* name replaces an earlier one
LowerMap(header) ==
    [k \in {Lower(header[i]) : i \in DOMAIN header} |->
        header[CHOOSE i \in DOMAIN header :
                  /\ Lower(header[i]) = k
                  /\ \A j \in DOMAIN header : Lower(header[j]) = k => j <= i]]

\* raw + [""] * (len(header) - len(raw))
PadRow(raw, n) == [i \in 1..n |-> IF i <= Len(raw) THEN raw[i] ELSE <<>>]

\* {header[idx]: raw[idx].strip() for idx in range(len(header))}
RowDict(header, raw) ==
    [h \in Range(header) |->
        Strip(raw[CHOOSE i \in DOMAIN header :
                     /\ header[i] = h
                     /\ \A j \in DOMAIN header : header[j] = h => j <= i])]

HasComma(text) == \E i \in DOMAIN text : text[i] = ","

\* the loop over rows[2:] of validate_metadata.parse_metadata_csv; i is the
\* row number of Head(raws)
RECURSIVE ValParseRows(_, _, _, _, _, _)
ValParseRows(raws, i, header, label_col, accession_col, data_rows) ==
    IF raws = <<>>
    THEN IF data_rows = <<>>
         THEN [error |-> Err("NoDataRows", 1, <<>>), rows |-> <<>>]
         ELSE [error |-> NoError, rows |-> data_rows]
    ELSE IF Len(Head(raws)) > Len(header)
    THEN [error |-> Err("RowTooLong", 1, <<Decimal(i)>>), rows |-> <<>>]
    ELSE LET row == RowDict(header, PadRow(Head(raws), Len(header))) IN
         IF \A h \in DOMAIN row : row[h] = <<>>
         THEN ValParseRows(Tail(raws), i + 1, header, label_col, accession_col, data_rows)
         ELSE IF row[label_col] = <<>>
         THEN [error |-> Err("EmptyLabel", 2, <<Decimal(i)>>), rows |-> <<>>]
         ELSE IF HasComma(row[label_col])
         THEN [error |-> Err("CommaInLabel", 2, <<Decimal(i)>>), rows |-> <<>>]
         ELSE IF row[accession_col] = <<>>
         THEN [error |-> Err("EmptyAccession", 2, <<Decimal(i)>>), rows |-> <<>>]
         ELSE IF HasComma(row[accession_col])
         THEN [error |-> Err("CommaInAccession", 2, <<Decimal(i)>>), rows |-> <<>>]
         ELSE ValParseRows(Tail(raws), i + 1, header, label_col, accession_col,
                           Append(data_rows, row))

NoMeta == [header |-> <<>>, types |-> <<>>, rows |-> <<>>, label_col |-> <<>>,
           accession_col |-> <<>>]

\* validate_metadata.parse_metadata_csv on the rows csv.reader returns
val_parse_metadata_csv(rows) ==
    IF Len(rows) < 3 THEN [error |-> Err("TooFewRows", 1, <<>>), meta |-> NoMeta]
    ELSE LET header == [i \in DOMAIN rows[1] |-> Strip(rows[1][i])]
             types == [i \in DOMAIN rows[2] |-> Lower(Strip(rows[2][i]))]
             lower_map == LowerMap(header)
         IN  IF Len(header) # Len(types)
             THEN [error |-> Err("HeaderTypeMismatch", 1, <<>>), meta |-> NoMeta]
             ELSE IF \E i \in DOMAIN types : types[i] \notin VALID_TYPES
             THEN [error |-> Err("InvalidType", 1,
                                 SortTexts({types[i] : i \in {j \in DOMAIN types :
                                                              types[j] \notin VALID_TYPES}})),
                   meta |-> NoMeta]
             ELSE IF T_label \notin DOMAIN lower_map
             THEN [error |-> Err("MissingLabelColumn", 1, <<>>), meta |-> NoMeta]
             ELSE IF T_accession \notin DOMAIN lower_map
             THEN [error |-> Err("MissingAccessionColumn", 1, <<>>), meta |-> NoMeta]
             ELSE LET label_col == lower_map[T_label]
                      accession_col == lower_map[T_accession]
                      got == ValParseRows(SubSeq(rows, 3, Len(rows)), 3, header,
                                          label_col, accession_col, <<>>)
                  IN  IF got.error # NoError
                      THEN [error |-> got.error, meta |-> NoMeta]
                      ELSE [error |-> NoError,
                            meta |-> [header |-> header, types |-> types,
                                      rows |-> got.rows, label_col |-> label_col,
                                      accession_col |-> accession_col]]

MetaLabels(m) == {m.rows[i][m.label_col] : i \in DOMAIN m.rows}

\* mutant of validate_reference_coverage: the metadata labels are compared
\* raw, without clean_alnum
validate_reference_coverage_raw(m, k2c, c2t) ==
    LET metadata_label_keys == MetaLabels(m)
        missing_keys == SortTexts((DOMAIN k2c) \ metadata_label_keys)
    IN  IF missing_keys # <<>>
        THEN Err("ReferenceCoverage", 3,
                 [i \in DOMAIN missing_keys |-> c2t[k2c[missing_keys[i]]]])
        ELSE NoError

\* validate_reference_coverage: the error it raises, or NoError
validate_reference_coverage(m, k2c, c2t) ==
    LET metadata_label_keys == {clean_alnum(l) : l \in MetaLabels(m)}
        missing_keys == SortTexts((DOMAIN k2c) \ metadata_label_keys)
    IN  IF missing_keys # <<>>
        THEN Err("ReferenceCoverage", 3,
                 [i \in DOMAIN missing_keys |-> c2t[k2c[missing_keys[i]]]])
        ELSE NoError

\* a directory entry is [stem, has_suffix, is_file]: its name is stem, plus
\* "_all_cov.txt" when has_suffix
NoDir == [exists |-> FALSE, is_dir |-> FALSE, entries |-> {}]

\* load_readsets_from_cov: the error it raises, or the sorted names
load_readsets_from_cov(dir) ==
    IF ~dir.exists THEN [error |-> Err("ResultsDirNotFound", 4, <<>>), names |-> <<>>]
    ELSE IF ~dir.is_dir THEN [error |-> Err("ResultsNotADirectory", 4, <<>>), names |-> <<>>]
    ELSE LET names == SortTexts({e.stem : e \in {d \in dir.entries :
                                   d.has_suffix /\ d.is_file /\ d.stem # <<>>}})
         IN  IF names = <<>>
             THEN [error |-> Err("NoCoverageFiles", 4, <<>>), names |-> <<>>]
             ELSE [error |-> NoError, names |-> names]

\* validate_readset_presence
validate_readset_presence(m, names) ==
    LET labels == MetaLabels(m)
        missing == SelectSeq(names, LAMBDA n : n \notin labels)
    IN  IF missing # <<>> THEN Err("ReadsetCoverage", 4, missing) ELSE NoError

\* the loop of validate_output_constraints
RECURSIVE OutputConstraintsFrom(_, _, _, _, _)
OutputConstraintsFrom(rows, m, seen_sample_ids, seen_raw_labels, seen_label_keys) ==
    IF rows = <<>> THEN NoError
    ELSE LET accession == Head(rows)[m.accession_col]
             raw_label == Head(rows)[m.label_col]
             collision_key == clean_alnum(label_final_of(raw_label))
         IN  IF raw_label \in seen_raw_labels
             THEN Err("DuplicateLabel", 5, <<raw_label>>)
             ELSE IF accession \in seen_sample_ids
             THEN Err("DuplicateAccession", 5, <<accession>>)
             ELSE IF collision_key \in DOMAIN seen_label_keys
             THEN Err("LabelCollision", 5, <<raw_label, seen_label_keys[collision_key]>>)
             ELSE OutputConstraintsFrom(Tail(rows), m,
                                        seen_sample_ids \cup {accession},
                                        seen_raw_labels \cup {raw_label},
                                        DictSet(seen_label_keys, collision_key, raw_label))

\* mutant of validate_output_constraints: the loop misses the first row
validate_output_constraints_from_second(m) ==
    OutputConstraintsFrom(Tail(m.rows), m, {}, {}, EmptyDict)

validate_output_constraints(m) == OutputConstraintsFrom(m.rows, m, {}, {}, EmptyDict)

\* validate_output_constraints, lines 274-277: the rows counted as references
RefCount(m, k2c) ==
    Cardinality({i \in DOMAIN m.rows : clean_alnum(m.rows[i][m.label_col]) \in DOMAIN k2c})

\* validate_metadata.load_five_letter as one function: the error it raises,
\* or the two maps
RECURSIVE ValLoadFrom(_, _, _, _, _)
ValLoadFrom(lines, i, k2c, c2t, seen) ==
    IF i > Len(lines)
    THEN [error |-> NoError, labelkey_to_code |-> k2c, code_to_taxon |-> c2t]
    ELSE LET line == lines[i] IN
         IF ~IsEntryLine(line) THEN ValLoadFrom(lines, i + 1, k2c, c2t, seen)
         ELSE IF Len(line) # 2
         THEN [error |-> Err("InvalidRefLine", 3, <<Decimal(i)>>),
               labelkey_to_code |-> EmptyDict, code_to_taxon |-> EmptyDict]
         ELSE LET taxon == Strip(line[1])
                  code == Strip(line[2])
                  label_key == clean_alnum(taxon)
              IN  IF code \in seen
                  THEN [error |-> Err("DuplicateCode", 3, <<code>>),
                        labelkey_to_code |-> EmptyDict, code_to_taxon |-> EmptyDict]
                  ELSE IF label_key \in DOMAIN k2c
                  THEN [error |-> Err("CollidingTaxon", 3, <<taxon, c2t[k2c[label_key]]>>),
                        labelkey_to_code |-> EmptyDict, code_to_taxon |-> EmptyDict]
                  ELSE ValLoadFrom(lines, i + 1, DictSet(k2c, label_key, code),
                                   DictSet(c2t, code, taxon), seen \cup {code})

\* mutant of val_load_five_letter: the duplicate-code and colliding-key
\* checks are left out
val_load_five_letter_unchecked(lines) ==
    LET got == prep_load_five_letter(lines) IN
    [error |-> IF got.ok THEN NoError ELSE Err("InvalidRefLine", 3, <<>>),
     labelkey_to_code |-> got.labelkey_to_code, code_to_taxon |-> got.code_to_taxon]

val_load_five_letter(lines) == ValLoadFrom(lines, 1, EmptyDict, EmptyDict, {})

-----------------------------------------------------------------------------
(* Metadata view builder: prepare_metadata_o2t_view.py                     *)

\* mutant of RowTooLong: a long row is cut to the header's length
RowTooLongNever(raw, header) == FALSE

\* line 109: elif len(raw) > len(header)
RowTooLong(raw, header) == Len(raw) > Len(header)

\* the loop over rows[2:] of prepare_metadata_o2t_view.parse_metadata_csv
RECURSIVE PrepParseRows(_, _, _, _)
PrepParseRows(raws, i, header, data_rows) ==
    IF raws = <<>>
    THEN IF data_rows = <<>>
         THEN [error |-> Err("NoDataRows", 1, <<>>), rows |-> <<>>]
         ELSE [error |-> NoError, rows |-> data_rows]
    ELSE IF RowTooLong(Head(raws), header)
    THEN [error |-> Err("RowTooLong", 1, <<Decimal(i)>>), rows |-> <<>>]
    ELSE LET row == RowDict(header, PadRow(Head(raws), Len(header))) IN
         IF \A h \in DOMAIN row : row[h] = <<>>
         THEN PrepParseRows(Tail(raws), i + 1, header, data_rows)
         ELSE PrepParseRows(Tail(raws), i + 1, header, Append(data_rows, row))

\* prepare_metadata_o2t_view.parse_metadata_csv on the rows csv.reader returns
prep_parse_metadata_csv(rows) ==
    IF Len(rows) < 3 THEN [error |-> Err("TooFewRows", 1, <<>>), meta |-> NoMeta]
    ELSE LET header == [i \in DOMAIN rows[1] |-> Strip(rows[1][i])]
             types == [i \in DOMAIN rows[2] |-> Lower(Strip(rows[2][i]))]
             lower_map == LowerMap(header)
         IN  IF Len(header) # Len(types)
             THEN [error |-> Err("HeaderTypeMismatch", 1, <<>>), meta |-> NoMeta]
             ELSE IF T_label \notin DOMAIN lower_map
             THEN [error |-> Err("MissingLabelColumn", 1, <<>>), meta |-> NoMeta]
             ELSE IF T_accession \notin DOMAIN lower_map
             THEN [error |-> Err("MissingAccessionColumn", 1, <<>>), meta |-> NoMeta]
             ELSE LET got == PrepParseRows(SubSeq(rows, 3, Len(rows)), 3, header, <<>>)
                  IN  IF got.error # NoError
                      THEN [error |-> got.error, meta |-> NoMeta]
                      ELSE [error |-> NoError,
                            meta |-> [header |-> header, types |-> types,
                                      rows |-> got.rows,
                                      label_col |-> lower_map[T_label],
                                      accession_col |-> lower_map[T_accession]]]

\* build_output_metadata, lines 158-170: the code_to_preferred_label it returns
build_output_preferred(m, k2c) ==
    build_preferred([i \in DOMAIN m.rows |->
                        [label |-> m.rows[i][m.label_col],
                         accession |-> m.rows[i][m.accession_col]]], k2c)

T_Reference == <<"R", "e", "f", "e", "r", "e", "n", "c", "e">>
T_Readset == <<"R", "e", "a", "d", "s", "e", "t">>

\* build_output_metadata, lines 151-173: the out_rows it returns
build_output_rows(m, k2c) ==
    LET extra_cols == SelectSeq(m.header,
                                LAMBDA c : Lower(c) \notin {T_label, T_accession})
    IN  [i \in DOMAIN m.rows |->
            LET row == m.rows[i]
                raw_label == row[m.label_col]
                is_reference == clean_alnum(raw_label) \in DOMAIN k2c
            IN  <<row[m.accession_col], label_final_of(raw_label),
                  IF is_reference THEN T_Reference ELSE T_Readset>>
                \o [j \in DOMAIN extra_cols |->
                       IF row[extra_cols[j]] = <<>> THEN NA ELSE row[extra_cols[j]]]]

-----------------------------------------------------------------------------
(* Gene selector: entropy_msa_og_gene_table.py.  A table is a sequence of  *)
(* rows [OG, Gene], both already stripped by load_og_genes_table.          *)

\* the distinct values of a sequence, in order of first appearance
RECURSIVE Distinct(_)
Distinct(seq) ==
    IF seq = <<>> THEN <<>>
    ELSE LET init == Distinct(DropLast(seq, 1))
             x == seq[Len(seq)]
         IN  IF x \in Range(init) THEN init ELSE Append(init, x)

CountOf(x, seq) == Cardinality({i \in DOMAIN seq : seq[i] = x})

\* gene_series.value_counts().max()
MaxCount(genes) ==
    CHOOSE c \in {CountOf(g, genes) : g \in Range(genes)} :
        \A g \in Range(genes) : CountOf(g, genes) <= c

\* the order sorted(..., key=str.casefold) compares by
CasefoldLeq(a, b) == StrLeq(Lower(a), Lower(b))

\* mutant of WinnerLeq: sorted() without key=str.casefold
WinnerLeqRaw(a, b) == StrLeq(a, b)

\* sorted(winners, key=...)[0]: sorted is stable, so the first of the least
WinnerLeq(a, b) == CasefoldLeq(a, b)

FirstSorted(winners) ==
    winners[CHOOSE i \in DOMAIN winners :
               /\ \A j \in DOMAIN winners : WinnerLeq(winners[i], winners[j])
               /\ \A j \in 1..(i - 1) : ~WinnerLeq(winners[j], winners[i])]

\* choose_gene_name: value_counts lists the names by falling count, equal
\* counts in order of first appearance; the winners keep that order
choose_gene_name(genes) ==
    LET max_count == MaxCount(genes)
        winners == SelectSeq(Distinct(genes), LAMBDA g : CountOf(g, genes) = max_count)
    IN  FirstSorted(winners)

\* og_sort_key: re.match(r"^([A-Za-z_]+)(\d+)$", og_value)
DigitsFrom(og) ==
    CHOOSE k \in 1..(Len(og) + 1) :
        /\ \A i \in k..Len(og) : IsDigit(og[i])
        /\ k > 1 => ~IsDigit(og[k - 1])

OgMatches(og) ==
    LET k == DigitsFrom(og) IN
    /\ 1 < k /\ k <= Len(og)
    /\ \A i \in 1..(k - 1) : IsAlpha(og[i]) \/ og[i] = "_"

\* int(match.group(2))
RECURSIVE IntOf(_)
IntOf(digits) ==
    IF digits = <<>> THEN 0
    ELSE 10 * IntOf(DropLast(digits, 1))
            + (CHOOSE d \in 0..9 : DigitChars[d + 1] = digits[Len(digits)])

\* the key is (text, number); inf is TRUE in the third field
og_sort_key(og) ==
    IF OgMatches(og)
    THEN [text |-> SubSeq(og, 1, DigitsFrom(og) - 1),
          num |-> IntOf(SubSeq(og, DigitsFrom(og), Len(og))), inf |-> FALSE]
    ELSE [text |-> og, num |-> 0, inf |-> TRUE]

\* tuple comparison of two keys
KeyLess(a, b) ==
    \/ StrLess(a.text, b.text)
    \/ /\ a.text = b.text
       /\ \/ ~a.inf /\ b.inf
          \/ ~a.inf /\ ~b.inf /\ a.num < b.num

\* sort_values("OG", key=...): insertion of a record into a sorted list,
\* after the records whose key is not greater
RECURSIVE InsertByKey(_, _)
InsertByKey(sorted, rec) ==
    IF sorted = <<>> THEN <<rec>>
    ELSE IF KeyLess(og_sort_key(rec.OG), og_sort_key(Head(sorted).OG))
    THEN <<rec>> \o sorted
    ELSE <<Head(sorted)>> \o InsertByKey(Tail(sorted), rec)

RECURSIVE SortByOgKey(_)
SortByOgKey(recs) ==
    IF recs = <<>> THEN <<>>
    ELSE InsertByKey(SortByOgKey(DropLast(recs, 1)), recs[Len(recs)])

\* work[work["Gene"] != ""] unless keep_empty_gene
FilterEmpty(df, keep) == IF keep THEN df ELSE SelectSeq(df, LAMBDA r : r.Gene # <<>>)

GroupGenes(df, og) ==
    LET rows == SelectSeq(df, LAMBDA r : r.OG = og)
    IN  [i \in DOMAIN rows |-> rows[i].Gene]

OgColumn(df) == [i \in DOMAIN df |-> df[i].OG]

\* build_mapping as one function: the mapping it returns, or <<>> when it
\* raises the no-valid-rows error
build_mapping(df, keep) ==
    LET filtered == FilterEmpty(df, keep)
        ogs == Distinct(OgColumn(filtered))
    IN  SortByOgKey([k \in DOMAIN ogs |->
                        [OG |-> ogs[k],
                         gene |-> choose_gene_name(GroupGenes(filtered, ogs[k]))]])

-----------------------------------------------------------------------------
(* Label Lookup Builder: msa_to_position_table.py.  A metadata row is      *)
(* [match, label]: the cell of the match column and the cell of the output *)
(* label column; an empty text stands for an empty (NaN) cell.             *)

\* msa_to_position_table.load_five_letter_codes: a malformed line and an
\* empty key are skipped, a repeated key is assigned again
RECURSIVE MsaLoadFrom(_, _)
MsaLoadFrom(lines, k2c) ==
    IF lines = <<>> THEN k2c
    ELSE LET line == Head(lines) IN
         IF ~IsEntryLine(line) \/ Len(line) # 2 THEN MsaLoadFrom(Tail(lines), k2c)
         ELSE LET label_key == clean_alnum(Strip(line[1])) IN
              IF label_key = <<>> THEN MsaLoadFrom(Tail(lines), k2c)
              ELSE MsaLoadFrom(Tail(lines), DictSet(k2c, label_key, Strip(line[2])))

load_five_letter_codes(lines) == MsaLoadFrom(lines, EmptyDict)

\* lines 159-171: the rows the loop skips
RowSkipped(row) == Strip(row.match) = <<>> \/ Strip(row.label) = <<>>

\* lines 173-185: the candidate identifiers of a row
CandidateIds(row, flm) ==
    LET match_value == Strip(row.match)
        cleaned_label == clean_alnum(match_value)
    IN  {normalize_msa_id(match_value)}
            \cup (IF cleaned_label # <<>> THEN {normalize_msa_id(cleaned_label)} ELSE {})
            \cup (IF cleaned_label \in DOMAIN flm /\ flm[cleaned_label] # <<>>
                  THEN {normalize_msa_id(flm[cleaned_label])} ELSE {})

\* mutant of IsCollision: the existing binding is not looked at, so the
\* last row to propose a candidate wins
IsCollisionNever(lk, candidate, label) == FALSE

\* line 191: existing is not None and existing != output_label
IsCollision(lk, candidate, label) == candidate \in DOMAIN lk /\ lk[candidate] # label

-----------------------------------------------------------------------------
(* Idle values: what a component's variables hold while another runs.      *)

NormIdle == npc = "idle" /\ nIn = <<>> /\ nOut1 = <<>> /\ nOut2 = <<>>

TreeIdle ==
    /\ tpc = "idle" /\ terminals = <<>> /\ code_to_preferred_label = EmptyDict
    /\ tree_code_to_taxon = EmptyDict /\ final_names = <<>> /\ clade_names = <<>>

GeneIdle ==
    /\ gpc = "idle" /\ og_df = <<>> /\ keep_empty_gene = FALSE /\ work = <<>>
    /\ og_order = <<>>
    /\ records = <<>> /\ mapping_df = <<>>

LookupIdle ==
    /\ lpc = "idle" /\ metadata = <<>> /\ five_letter_map = EmptyDict /\ row_i = 0
    /\ candidate_ids = {} /\ output_label = <<>> /\ lookup = EmptyDict /\ collisions = 0

NoIndex == [labelkey_to_code |-> EmptyDict, code_to_taxon |-> EmptyDict, returned |-> FALSE]

ValIdle ==
    /\ vpc = "idle" /\ csv_rows = <<>> /\ meta = NoMeta /\ ref_lines = <<>> /\ line_i = 0
    /\ labelkey_to_code = EmptyDict /\ code_to_taxon = EmptyDict /\ seen_codes = {}
    /\ index = NoIndex /\ cov_dir = NoDir /\ readset_names = <<>> /\ error = NoError
    /\ exit_status = -1 /\ ran = <<>>

IndexIdle ==
    /\ ipc = "idle" /\ five_letter_lines = <<>> /\ msa_codes = EmptyDict
    /\ prep_codes = NoIndex /\ strict_codes = NoIndex

RelabelIdle ==
    /\ rpc = "idle" /\ msa_records = <<>> /\ metadata_given = FALSE
    /\ metadata_label_lookup = EmptyDict /\ position_df = <<>>

PrepIdle ==
    /\ ppc = "idle" /\ prep_csv = <<>> /\ prep_ref = <<>> /\ validated = NoError
    /\ prep_error = NoError /\ prep_meta = NoMeta /\ prep_index = NoIndex /\ out_rows = <<>>
    /\ prep_preferred = EmptyDict

RestIdle == IndexIdle /\ RelabelIdle /\ PrepIdle

-----------------------------------------------------------------------------
(* Identifier Normalizer driver: sanitizeLabel applied to a text, then to  *)
(* its own output.                                                         *)

MaxTextLen == 4
NormAlphabet == {"A", "R", "_", "1", "2", "#"}

NormInit ==
    /\ npc = "start"
    /\ nIn \in Texts(NormAlphabet, MaxTextLen)
    /\ nOut1 = <<>> /\ nOut2 = <<>>
    /\ TreeIdle /\ GeneIdle /\ LookupIdle /\ ValIdle /\ RestIdle

Sanitize ==
    /\ npc = "start"
    /\ nOut1' = tree_label_sanitize(nIn)
    /\ npc' = "once"
    /\ UNCHANGED <<nIn, nOut2, treeVars, geneVars, lookupVars, valVars, restVars>>

SanitizeAgain ==
    /\ npc = "once"
    /\ nOut2' = tree_label_sanitize(nOut1)
    /\ npc' = "twice"
    /\ UNCHANGED <<nIn, nOut1, treeVars, geneVars, lookupVars, valVars, restVars>>

NormNext == Sanitize \/ SanitizeAgain

SpecNorm == NormInit /\ [][NormNext]_vars

-----------------------------------------------------------------------------
(* prepare_metadata_o2t_view.main: indexes, then the tree's terminals one  *)
(* by one, then the de-duplication.                                        *)

MaxLeaves == 3

LeafNames ==
    { <<"X">>, <<"X", "_", "2">>, <<"X", "_", "3">>, <<"X", "#">>,
      <<"X", "_", "2", "_", "2", "_", "2">>, <<"C">>, <<"Y", "_", "D", "_", "1">>, <<>>,
      <<"X", "_", "R", "1">>, <<"D", "_", "C">> }

TreeRefTables ==
    { <<>>,
      << <<<<"X", "2", "2">>, <<"C">>>> >>,
      << <<<<"#", "c">>>>, <<<<"X">>, <<"C">>>>, <<>>, <<<<"Y", "#">>, <<"D">>>> >>,
      << <<<<"X">>>> >> }

TreeMetas ==
    { << [label |-> <<"X", "_", "2", "_", "2">>, accession |-> <<"a">>] >>,
      << [label |-> <<"X">>, accession |-> <<"a">>],
         [label |-> <<"Z">>, accession |-> <<"b">>] >> }

TreeInit ==
    /\ tpc = "start"
    /\ terminals = <<>> /\ code_to_preferred_label = EmptyDict
    /\ tree_code_to_taxon = EmptyDict /\ final_names = <<>> /\ clade_names = <<>>
    /\ NormIdle /\ GeneIdle /\ LookupIdle /\ ValIdle /\ RestIdle

\* main: load_five_letter and build_output_metadata; an exception exits
PrepIndexes ==
    /\ tpc = "start"
    /\ \E lines \in TreeRefTables, rows \in TreeMetas :
          LET idx == prep_load_five_letter(lines) IN
          IF idx.ok
          THEN /\ tree_code_to_taxon' = idx.code_to_taxon
               /\ code_to_preferred_label' = build_preferred(rows, idx.labelkey_to_code)
               /\ tpc' = "tree"
          ELSE /\ tpc' = "failed"
               /\ UNCHANGED <<tree_code_to_taxon, code_to_preferred_label>>
    /\ UNCHANGED <<terminals, final_names, clade_names>>
    /\ UNCHANGED <<normVars, geneVars, lookupVars, valVars, restVars>>

\* rewrite_tree_labels: Phylo.read, get_terminals, the empty-tree error
ReadTree ==
    /\ tpc = "tree"
    /\ \E names \in SeqsUpTo(LeafNames, MaxLeaves) :
          /\ terminals' = names
          /\ tpc' = IF names = <<>> THEN "failed" ELSE "loop"
    /\ UNCHANGED <<code_to_preferred_label, tree_code_to_taxon, final_names, clade_names>>
    /\ UNCHANGED <<normVars, geneVars, lookupVars, valVars, restVars>>

\* one iteration of "for clade in terminals"
RewriteTerminal ==
    /\ tpc = "loop"
    /\ Len(final_names) < Len(terminals)
    /\ final_names' =
          Append(final_names,
                 new_name_of(terminals[Len(final_names) + 1], tree_code_to_taxon,
                             code_to_preferred_label))
    /\ UNCHANGED <<tpc, terminals, code_to_preferred_label, tree_code_to_taxon, clade_names>>
    /\ UNCHANGED <<normVars, geneVars, lookupVars, valVars, restVars>>

\* after the loop: ensure_unique_tree_labels, then the names are assigned
FinishRewrite ==
    /\ tpc = "loop"
    /\ Len(final_names) = Len(terminals)
    /\ clade_names' = ensure_unique_tree_labels(final_names)
    /\ tpc' = "done"
    /\ UNCHANGED <<terminals, code_to_preferred_label, tree_code_to_taxon, final_names>>
    /\ UNCHANGED <<normVars, geneVars, lookupVars, valVars, restVars>>

TreeNext == PrepIndexes \/ ReadTree \/ RewriteTerminal \/ FinishRewrite

SpecTree == TreeInit /\ [][TreeNext]_vars

\* C1: after tree relabeling the final names of the terminals are pairwise
\* distinct, whatever the terminal names and the reference index.
C1_FinalNamesDistinct ==
    tpc = "done" =>
        \A i, j \in DOMAIN clade_names : i # j => clade_names[i] # clade_names[j]

\* the name a terminal gets from the sub-tokens of its stripped name
AssignedName(stripped) ==
    LET tokens == SplitOn(stripped, "_")
        codes == {i \in DOMAIN tokens : tokens[i] \in DOMAIN tree_code_to_taxon}
    IN  IF codes # {}
        THEN LET first == CHOOSE i \in codes : \A j \in codes : i <= j
                 code == tokens[first]
             IN  IF code \in DOMAIN code_to_preferred_label
                 THEN code_to_preferred_label[code]
                 ELSE tree_label_sanitize(tree_code_to_taxon[code])
        ELSE tree_label_sanitize(stripped)

C2_SanitizeIdempotent == npc = "twice" => nOut2 = nOut1

\* C15: sanitizeLabel applies stripPairSuffix first, where stripPairSuffix
\* removes one trailing _R1, _R2, _1 or _2: for every text x,
\* sanitizeLabel(x) = sanitizeLabel(stripPairSuffix(x)).
C15_SanitizeStripsPairSuffix ==
    npc # "start" => nOut1 = tree_label_sanitize(StripPairSuffix(nIn))

-----------------------------------------------------------------------------
(* entropy_msa_og_gene_table.build_mapping                                  *)

MaxGeneRows == 3

OgNames == { <<"A">>, <<"B", "0", "9">>, <<"B", "9">>, <<"B", "1", "0">> }
GeneNames == { <<>>, <<"a">>, <<"A">>, <<"B">> }
GeneRows == {[OG |-> og, Gene |-> g] : og \in OgNames, g \in GeneNames}

GeneInit ==
    /\ gpc = "start"
    /\ og_df \in SeqsUpTo(GeneRows, MaxGeneRows)
    /\ keep_empty_gene \in BOOLEAN
    /\ work = <<>> /\ og_order = <<>> /\ records = <<>> /\ mapping_df = <<>>
    /\ NormIdle /\ TreeIdle /\ LookupIdle /\ ValIdle /\ RestIdle

\* lines 115-121: the filter and the no-valid-rows error
FilterRows ==
    /\ gpc = "start"
    /\ work' = FilterEmpty(og_df, keep_empty_gene)
    /\ og_order' = Distinct(OgColumn(work'))
    /\ gpc' = IF work' = <<>> THEN "failed" ELSE "groups"
    /\ UNCHANGED <<og_df, keep_empty_gene, records, mapping_df>>
    /\ UNCHANGED <<normVars, treeVars, lookupVars, valVars, restVars>>

\* lines 126-128: one group of work.groupby("OG", sort=False)
ChooseForGroup ==
    /\ gpc = "groups"
    /\ Len(records) < Len(og_order)
    /\ LET og == og_order[Len(records) + 1] IN
       records' = Append(records, [OG |-> og, gene |-> choose_gene_name(GroupGenes(work, og))])
    /\ UNCHANGED <<gpc, og_df, keep_empty_gene, work, og_order, mapping_df>>
    /\ UNCHANGED <<normVars, treeVars, lookupVars, valVars, restVars>>

\* line 143: the records are sorted by og_sort_key and returned
SortMapping ==
    /\ gpc = "groups"
    /\ Len(records) = Len(og_order)
    /\ mapping_df' = SortByOgKey(records)
    /\ gpc' = "done"
    /\ UNCHANGED <<og_df, keep_empty_gene, work, og_order, records>>
    /\ UNCHANGED <<normVars, treeVars, lookupVars, valVars, restVars>>

GeneNext == FilterRows \/ ChooseForGroup \/ SortMapping

SpecGene == GeneInit /\ [][GeneNext]_vars

\* C7: the name chosen for an OG has the maximal count among the OG's
\* observations, and no other name of maximal count precedes it in
\* case-insensitive order; a name with a strict majority is chosen.
C7_ChosenGene ==
    \A k \in DOMAIN records :
        LET genes == GroupGenes(work, records[k].OG)
            chosen == records[k].gene
        IN  /\ chosen \in Range(genes)
            /\ \A g \in Range(genes) :
                  /\ CountOf(g, genes) <= CountOf(chosen, genes)
                  /\ CountOf(g, genes) = CountOf(chosen, genes)
                        => StrLeq(Lower(chosen), Lower(g))
                  /\ 2 * CountOf(g, genes) > Len(genes) => chosen = g

\* C7 witness: B and a tie in one OG and a is chosen, although B comes
\* first in code point order.
C7_Witness ==
    \E k \in DOMAIN records :
        /\ Range(GroupGenes(work, records[k].OG)) = {<<"B">>, <<"a">>}
        /\ records[k].gene = <<"a">>

\* C8: with empty names dropped, a returned mapping holds exactly one row
\* for every distinct OG of the input; an OG left without observations
\* fails the run instead.
C8_EveryInputOgMapped ==
    (gpc = "done" /\ ~keep_empty_gene) =>
        /\ Range(OgColumn(mapping_df)) = Range(OgColumn(og_df))
        /\ Len(mapping_df) = Cardinality(Range(OgColumn(og_df)))

\* the order the claim states: names of the form prefix + digits first, by
\* prefix then number; the others after them, by raw string
ClaimedOgLeq(a, b) ==
    IF OgMatches(a) /\ OgMatches(b)
    THEN ~KeyLess(og_sort_key(b), og_sort_key(a))
    ELSE IF OgMatches(a) # OgMatches(b) THEN OgMatches(a)
    ELSE StrLeq(a, b)

\* C9: the returned mapping is ordered by the natural OG key, and every OG
\* name that is not prefix + digits comes after all names that are.
C9_NaturalOrder ==
    gpc = "done" =>
        \A i, j \in DOMAIN mapping_df :
            i < j => ClaimedOgLeq(mapping_df[i].OG, mapping_df[j].OG)

\* the input rows in another order
Permuted(df, perm) == [i \in DOMAIN df |-> df[perm[i]]]
RowOrders(df) == {perm \in [DOMAIN df -> DOMAIN df] : \A i, j \in DOMAIN df : i # j => perm[i] # perm[j]}

\* C19: gene selection does not depend on the order of the input rows:
\* every permutation of the rows gives the same chosen name for each OG and
\* the same output row order.
C19_RowOrderIndependent ==
    gpc = "done" =>
        \A perm \in RowOrders(og_df) :
            build_mapping(Permuted(og_df, perm), keep_empty_gene) = mapping_df

\* the mapping the steps return is the one build_mapping computes
MappingIsBuildMapping ==
    gpc = "done" => mapping_df = build_mapping(og_df, keep_empty_gene)

-----------------------------------------------------------------------------
(* msa_to_position_table.build_metadata_label_lookup                       *)

MaxLookupRows == 2

MatchCells == { <<>>, <<"X">>, <<"X", "#">>, <<"X", "_", "1">>, <<"C">>, <<"_", "2">> }

LookupRows ==
    {[match |-> m, label |-> m] : m \in MatchCells}
        \cup {[match |-> m, label |-> l] : m \in MatchCells \ {<<>>},
                                           l \in {<<"L">>, <<"M", " ">>}}
        \cup {[match |-> <<"X">>, label |-> <<>>]}

LookupRefTables ==
    { <<>>,
      << <<<<"X">>, <<"C">>>> >>,
      << <<<<"X", "#">>, <<"D", "_", "R", "1">>>>, <<<<"#">>, <<"E">>>> >> }

LookupInit ==
    /\ lpc = "start"
    /\ metadata \in SeqsUpTo(LookupRows, MaxLookupRows)
    /\ five_letter_map \in {load_five_letter_codes(t) : t \in LookupRefTables}
    /\ row_i = 0 /\ candidate_ids = {} /\ output_label = <<>>
    /\ lookup = EmptyDict /\ collisions = 0
    /\ NormIdle /\ TreeIdle /\ GeneIdle /\ ValIdle /\ RestIdle

\* lines 151-156: the match column must exist
CheckMatchColumn ==
    /\ lpc = "start"
    /\ \E has_column \in BOOLEAN : lpc' = IF has_column THEN "rows" ELSE "failed"
    /\ UNCHANGED <<metadata, five_letter_map, row_i, candidate_ids, output_label, lookup,
                   collisions>>
    /\ UNCHANGED <<normVars, treeVars, geneVars, valVars, restVars>>

\* lines 158-185: the next row and its candidate identifiers
NextRow ==
    /\ lpc = "rows"
    /\ candidate_ids = {}
    /\ row_i < Len(metadata)
    /\ row_i' = row_i + 1
    /\ LET row == metadata[row_i + 1] IN
       IF RowSkipped(row)
       THEN UNCHANGED <<candidate_ids, output_label>>
       ELSE /\ candidate_ids' = CandidateIds(row, five_letter_map)
            /\ output_label' = Strip(row.label)
    /\ UNCHANGED <<lpc, metadata, five_letter_map, lookup, collisions>>
    /\ UNCHANGED <<normVars, treeVars, geneVars, valVars, restVars>>

\* lines 187-194: one candidate of the row, in the set's iteration order
BindCandidate ==
    /\ lpc = "rows"
    /\ \E candidate \in candidate_ids :
          /\ candidate_ids' = candidate_ids \ {candidate}
          /\ IF candidate = <<>>
             THEN UNCHANGED <<lookup, collisions>>
             ELSE IF IsCollision(lookup, candidate, output_label)
             THEN collisions' = collisions + 1 /\ UNCHANGED lookup
             ELSE lookup' = DictSet(lookup, candidate, output_label) /\ UNCHANGED collisions
    /\ UNCHANGED <<lpc, metadata, five_letter_map, row_i, output_label>>
    /\ UNCHANGED <<normVars, treeVars, geneVars, valVars, restVars>>

\* lines 196-202: the lookup is returned
ReturnLookup ==
    /\ lpc = "rows"
    /\ candidate_ids = {}
    /\ row_i = Len(metadata)
    /\ lpc' = "done"
    /\ UNCHANGED <<metadata, five_letter_map, row_i, candidate_ids, output_label, lookup,
                   collisions>>
    /\ UNCHANGED <<normVars, treeVars, geneVars, valVars, restVars>>

LookupNext == CheckMatchColumn \/ NextRow \/ BindCandidate \/ ReturnLookup

SpecLookup == LookupInit /\ [][LookupNext]_vars

\* the first row, in table order, that proposes a candidate
Proposes(i, candidate) ==
    /\ ~RowSkipped(metadata[i])
    /\ candidate \in CandidateIds(metadata[i], five_letter_map)

FirstProposerLabel(candidate) ==
    Strip(metadata[CHOOSE i \in DOMAIN metadata :
                      /\ Proposes(i, candidate)
                      /\ \A j \in 1..(i - 1) : ~Proposes(j, candidate)].label)

\* the candidate a step of the loop tried to bind
Attempted == CHOOSE c \in candidate_ids : c \notin candidate_ids'

\* C6: first write wins.  A binding never changes once made; an attempt to
\* bind a bound candidate to a different label leaves the map as it is and
\* adds exactly one to the collision counter, an attempt with the same
\* label adds nothing; the returned map has only non-empty keys, one for
\* every candidate proposed, each mapped to the label of the first row that
\* proposed it.
C6_FirstWriteWins ==
    /\ [][ /\ \A k \in DOMAIN lookup : k \in DOMAIN lookup' /\ lookup'[k] = lookup[k]
           /\ collisions' \in {collisions, collisions + 1}
           /\ candidate_ids' # candidate_ids /\ candidate_ids' \subseteq candidate_ids =>
                 IF Attempted \in DOMAIN lookup
                 THEN /\ lookup' = lookup
                      /\ collisions' = IF lookup[Attempted] # output_label
                                       THEN collisions + 1 ELSE collisions
                 ELSE /\ collisions' = collisions
                      /\ Attempted # <<>> => /\ DOMAIN lookup' = DOMAIN lookup \cup {Attempted}
                                             /\ lookup'[Attempted] = output_label
                      /\ Attempted = <<>> => lookup' = lookup
        ]_vars
    /\ [](lpc = "done" =>
            /\ <<>> \notin DOMAIN lookup
            /\ DOMAIN lookup =
                  {c \in UNION {CandidateIds(metadata[i], five_letter_map) :
                                  i \in {j \in DOMAIN metadata : ~RowSkipped(metadata[j])}} :
                      c # <<>>}
            /\ \A k \in DOMAIN lookup : lookup[k] = FirstProposerLabel(k))

\* C6 witness: two rows proposed the same candidate with different labels;
\* one collision was counted and the first row's label is kept.
C6_Witness ==
    /\ lpc = "done"
    /\ collisions = 1
    /\ Len(metadata) = 2
    /\ ~RowSkipped(metadata[1]) /\ ~RowSkipped(metadata[2])
    /\ Strip(metadata[1].label) # Strip(metadata[2].label)
    /\ \E k \in DOMAIN lookup :
          /\ Proposes(1, k) /\ Proposes(2, k)
          /\ lookup[k] = Strip(metadata[1].label)

-----------------------------------------------------------------------------
(* The two permissive loaders of five_letter_taxon.tsv, applied to the     *)
(* same file: msa_to_position_table.load_five_letter_codes and             *)
(* prepare_metadata_o2t_view.load_five_letter.                             *)

MaxIndexLines == 3

IndexLineChoices ==
    { <<>>,
      <<<<"#", "c">>>>,
      <<<<"X">>>>,
      <<<<"X">>, <<"C">>>>,
      <<<<"X">>, <<"D">>>>,
      <<<<"X", "#">>, <<"E">>>>,
      <<<<"Y">>, <<"C">>>>,
      <<<<"_">>, <<"F">>>> }

IndexInit ==
    /\ ipc = "start"
    /\ five_letter_lines \in SeqsUpTo(IndexLineChoices, MaxIndexLines)
    /\ msa_codes = EmptyDict /\ prep_codes = NoIndex /\ strict_codes = NoIndex
    /\ NormIdle /\ TreeIdle /\ GeneIdle /\ LookupIdle /\ ValIdle
    /\ RelabelIdle /\ PrepIdle

\* msa_to_position_table.main: five_letter_map = load_five_letter_codes(...)
LoadFiveLetterCodes ==
    /\ ipc = "start"
    /\ msa_codes' = load_five_letter_codes(five_letter_lines)
    /\ ipc' = "msa"
    /\ UNCHANGED <<five_letter_lines, prep_codes, strict_codes>>
    /\ UNCHANGED <<normVars, treeVars, geneVars, lookupVars, valVars, relabelVars, prepVars>>

\* prepare_metadata_o2t_view.main: load_five_letter(args.five_letter)
PrepLoadFiveLetter ==
    /\ ipc = "msa"
    /\ prep_codes' = prep_load_five_letter(five_letter_lines)
    /\ ipc' = "prep"
    /\ UNCHANGED <<five_letter_lines, msa_codes, strict_codes>>
    /\ UNCHANGED <<normVars, treeVars, geneVars, lookupVars, valVars, relabelVars, prepVars>>

\* validate_metadata.main: load_five_letter(args.five_letter), the strict one
ValLoadFiveLetter ==
    /\ ipc = "prep"
    /\ strict_codes' = val_load_five_letter(five_letter_lines)
    /\ ipc' = "done"
    /\ UNCHANGED <<five_letter_lines, msa_codes, prep_codes>>
    /\ UNCHANGED <<normVars, treeVars, geneVars, lookupVars, valVars, relabelVars, prepVars>>

IndexNext == LoadFiveLetterCodes \/ PrepLoadFiveLetter \/ ValLoadFiveLetter

SpecIndex == IndexInit /\ [][IndexNext]_vars

\* the well-formed entry lines of the file, by line number
IndexEntries ==
    {i \in DOMAIN five_letter_lines :
        IsEntryLine(five_letter_lines[i]) /\ Len(five_letter_lines[i]) = 2}
EntryKey(i) == clean_alnum(Strip(five_letter_lines[i][1]))
EntryTaxon(i) == Strip(five_letter_lines[i][1])
EntryCode(i) == Strip(five_letter_lines[i][2])
FirstWithKey(k) ==
    CHOOSE i \in IndexEntries :
        EntryKey(i) = k /\ \A j \in IndexEntries : EntryKey(j) = k => i <= j
FirstWithCode(c) ==
    CHOOSE i \in IndexEntries :
        EntryCode(i) = c /\ \A j \in IndexEntries : EntryCode(j) = c => i <= j
NoMalformedLine ==
    \A i \in DOMAIN five_letter_lines :
        IsEntryLine(five_letter_lines[i]) => Len(five_letter_lines[i]) = 2

\* C11: the permissive loaders never fail on a repeated code or comparison
\* key, and for a key (or code) that appears on several lines they keep the
\* entry of the first occurrence.
C11_PermissiveKeepsFirst ==
    ipc = "done" =>
        /\ NoMalformedLine => prep_codes.ok
        /\ \A k \in DOMAIN msa_codes : msa_codes[k] = EntryCode(FirstWithKey(k))
        /\ prep_codes.ok =>
              /\ \A k \in DOMAIN prep_codes.labelkey_to_code :
                    prep_codes.labelkey_to_code[k] = EntryCode(FirstWithKey(k))
              /\ \A c \in DOMAIN prep_codes.code_to_taxon :
                    prep_codes.code_to_taxon[c] = EntryTaxon(FirstWithCode(c))

\* the restriction of a dict to its non-empty keys
NonEmptyKeys(d) == [k \in (DOMAIN d) \ {<<>>} |-> d[k]]

\* C21: on every reference table the strict loader accepts, the permissive
\* loader of the view builder returns the same two maps and the loader of
\* the position table the same key-to-code map without the empty key; the
\* strict maps are inverse to each other through the comparison key and
\* have the same size.
C21_LoadersAgree ==
    (ipc = "done" /\ strict_codes.error = NoError) =>
        /\ prep_codes.ok
        /\ prep_codes.labelkey_to_code = strict_codes.labelkey_to_code
        /\ prep_codes.code_to_taxon = strict_codes.code_to_taxon
        /\ msa_codes = NonEmptyKeys(strict_codes.labelkey_to_code)
        /\ \A i \in IndexEntries :
              /\ EntryKey(i) \in DOMAIN strict_codes.labelkey_to_code
              /\ strict_codes.labelkey_to_code[EntryKey(i)]
                     \in DOMAIN strict_codes.code_to_taxon
              /\ strict_codes.code_to_taxon[strict_codes.labelkey_to_code[EntryKey(i)]]
                     = EntryTaxon(i)
        /\ Cardinality(DOMAIN strict_codes.labelkey_to_code)
               = Cardinality(DOMAIN strict_codes.code_to_taxon)
        /\ Cardinality(DOMAIN strict_codes.labelkey_to_code) = Cardinality(IndexEntries)

\* C21 witness: an accepted table of three entries, one of them with an
\* empty comparison key, which only the position table's loader drops.
C21_Witness ==
    /\ ipc = "done" /\ strict_codes.error = NoError
    /\ Cardinality(IndexEntries) = 3
    /\ <<>> \in DOMAIN strict_codes.labelkey_to_code
    /\ Cardinality(DOMAIN msa_codes) = 2
    /\ prep_codes.labelkey_to_code = strict_codes.labelkey_to_code

\* what the loaders do: the entry of the last occurrence is kept
LastWithKey(k) ==
    CHOOSE i \in IndexEntries :
        EntryKey(i) = k /\ \A j \in IndexEntries : EntryKey(j) = k => j <= i
PermissiveKeepsLast ==
    ipc = "done" =>
        /\ NoMalformedLine => prep_codes.ok
        /\ \A k \in DOMAIN msa_codes : msa_codes[k] = EntryCode(LastWithKey(k))
        /\ prep_codes.ok =>
              \A k \in DOMAIN prep_codes.labelkey_to_code :
                  prep_codes.labelkey_to_code[k] = EntryCode(LastWithKey(k))

-----------------------------------------------------------------------------
(* msa_to_position_table.main: the per-position records of one MSA file   *)
(* are relabeled with the metadata label lookup.                           *)

MaxMsaRecords == 2

MsaIds == { <<"X">>, <<"X", "_", "1">>, <<"X", "_", "R", "2">>, <<"Y">>,
            <<"X", "_", "1", "_", "1">> }
MsaSeqs == { <<"A">>, <<"A", "C">> }
Alignments == SeqsUpTo([id : MsaIds, seq : MsaSeqs], MaxMsaRecords)

T_OG1 == <<"O", "G", "1">>
T_gene == <<"g">>
T_AA == <<"A", "A">>

\* parse_msa_to_dataframe: one record per sequence position
RECURSIVE parse_msa_to_dataframe(_, _, _, _)
parse_msa_to_dataframe(alignment, og_name, gene_name, seq_type) ==
    IF alignment = <<>> THEN <<>>
    ELSE LET record == Head(alignment)
             sample_id == Strip(record.id)
         IN  [position \in DOMAIN record.seq |->
                 [sample_id |-> sample_id, position |-> position,
                  character |-> record.seq[position], og |-> og_name,
                  gene |-> gene_name, seq_type |-> seq_type]]
             \o parse_msa_to_dataframe(Tail(alignment), og_name, gene_name, seq_type)

RelabelLookups ==
    { EmptyDict,
      <<"X">> :> <<"L">>,
      <<"X">> :> <<"L">> @@ <<"Y">> :> <<"X">>,
      <<"X", "_", "1">> :> <<"K">> }

RelabelInit ==
    /\ rpc = "parsed"
    /\ msa_records \in {parse_msa_to_dataframe(a, T_OG1, T_gene, T_AA) : a \in Alignments}
    /\ metadata_given \in BOOLEAN
    /\ metadata_label_lookup \in RelabelLookups
    /\ position_df = msa_records
    /\ NormIdle /\ TreeIdle /\ GeneIdle /\ LookupIdle /\ ValIdle
    /\ IndexIdle /\ PrepIdle

\* lines 331-343: an empty frame is skipped, else the ids are normalized
NormalizeSampleIds ==
    /\ rpc = "parsed"
    /\ IF position_df = <<>>
       THEN rpc' = "skipped" /\ UNCHANGED position_df
       ELSE /\ rpc' = "normalized"
            /\ position_df' =
                  [i \in DOMAIN position_df |->
                      [position_df[i] EXCEPT !.sample_id = normalize_msa_id(@)]]
    /\ UNCHANGED <<msa_records, metadata_given, metadata_label_lookup>>
    /\ UNCHANGED <<normVars, treeVars, geneVars, lookupVars, valVars, indexVars, prepVars>>

\* lines 346-348: df = df[df['sample_id'].isin(metadata_label_lookup)]
FilterByMetadata ==
    /\ rpc = "normalized"
    /\ IF metadata_given
       THEN /\ position_df' =
                  SelectSeq(position_df,
                            LAMBDA r : r.sample_id \in DOMAIN metadata_label_lookup)
            /\ rpc' = "filtered"
       ELSE rpc' = "done" /\ UNCHANGED position_df
    /\ UNCHANGED <<msa_records, metadata_given, metadata_label_lookup>>
    /\ UNCHANGED <<normVars, treeVars, geneVars, lookupVars, valVars, indexVars, prepVars>>

\* lines 350-355: df['sample_id'] = df['sample_id'].map(metadata_label_lookup)
MapLabels ==
    /\ rpc = "filtered"
    /\ IF position_df # <<>>
       THEN position_df' =
               [i \in DOMAIN position_df |->
                   [position_df[i] EXCEPT !.sample_id = metadata_label_lookup[@]]]
       ELSE UNCHANGED position_df
    /\ rpc' = "done"
    /\ UNCHANGED <<msa_records, metadata_given, metadata_label_lookup>>
    /\ UNCHANGED <<normVars, treeVars, geneVars, lookupVars, valVars, indexVars, prepVars>>

RelabelNext == NormalizeSampleIds \/ FilterByMetadata \/ MapLabels

SpecRelabel == RelabelInit /\ [][RelabelNext]_vars

\* the records that stay, in their order, with only the id rewritten
RECURSIVE RelabeledStream(_, _)
RelabeledStream(recs, lk) ==
    IF recs = <<>> THEN <<>>
    ELSE LET r == Head(recs)
             id == StripPairSuffix(r.sample_id)
             rest == RelabeledStream(Tail(recs), lk)
         IN  IF id \in DOMAIN lk
             THEN <<[sample_id |-> lk[id], position |-> r.position,
                     character |-> r.character, og |-> r.og, gene |-> r.gene,
                     seq_type |-> r.seq_type]>> \o rest
             ELSE rest

-----------------------------------------------------------------------------
(* The metadata table and the reference table go through the validator's   *)
(* parse_metadata_csv, load_five_letter and validate_output_constraints,    *)
(* then through prepare_metadata_o2t_view.main up to build_output_metadata. *)

MaxPrepRows == 2

T_note == <<"n", "o", "t", "e">>

PrepHeadTypePairs ==
    { << <<T_label, T_accession>>, <<T_character, T_character>> >>,
      << <<T_label, T_accession, T_note>>, <<T_character, T_character, T_character>> >>,
      << <<T_label>>, <<T_character>> >> }

PrepLabelCells == { <<"X">>, <<"X", "_", "1">>, <<"X", "1">>, <<"#">>, NA }

PrepDataRows ==
    {<<l, a>> : l \in PrepLabelCells, a \in {<<"a">>, <<"b">>}}
        \cup { <<>>, << <<"X">> >>, << <<>>, <<" ">> >>,
               << <<"X">>, <<"a">>, <<"n">> >>,
               << <<"Y">>, <<"b">>, <<>>, <<>> >>,
               << <<"Y">>, <<"b">>, <<"n">>, <<"x">> >> }

PrepCsvInputs ==
    {ht \o data : ht \in PrepHeadTypePairs, data \in SeqsUpTo(PrepDataRows, MaxPrepRows)}

PrepRefTables ==
    { <<>>,
      << <<<<"X", "1">>, <<"C">>>> >>,
      << <<<<"_">>, <<"F">>>>, <<<<"X">>, <<"C">>>> >>,
      << <<<<"X">>>> >> }

NotChecked == [kind |-> "not checked", stage |-> 0, names |-> <<>>]

PrepInit ==
    /\ ppc = "start"
    /\ prep_csv \in PrepCsvInputs
    /\ prep_ref \in PrepRefTables
    /\ validated = NoError /\ prep_error = NoError /\ prep_meta = NoMeta
    /\ prep_index = NoIndex
    /\ out_rows = <<>> /\ prep_preferred = EmptyDict
    /\ NormIdle /\ TreeIdle /\ GeneIdle /\ LookupIdle /\ ValIdle
    /\ IndexIdle /\ RelabelIdle

\* validate_metadata: parse_metadata_csv, load_five_letter and
\* validate_output_constraints on the two files
ValidateFiles ==
    /\ ppc = "start"
    /\ LET parsed == val_parse_metadata_csv(prep_csv)
           idx == val_load_five_letter(prep_ref)
           checked == parsed.error = NoError /\ idx.error = NoError
       IN  validated' =
              [parsed |-> parsed,
               index_error |-> idx.error,
               checked |-> checked,
               constraints |-> IF checked THEN validate_output_constraints(parsed.meta)
                               ELSE NotChecked,
               ref_count |-> IF checked THEN RefCount(parsed.meta, idx.labelkey_to_code)
                             ELSE 0,
               read_count |-> IF checked
                              THEN Len(parsed.meta.rows)
                                       - RefCount(parsed.meta, idx.labelkey_to_code)
                              ELSE 0]
    /\ ppc' = "validated"
    /\ UNCHANGED <<prep_csv, prep_ref, prep_error, prep_meta, prep_index, out_rows,
                   prep_preferred>>
    /\ UNCHANGED <<normVars, treeVars, geneVars, lookupVars, valVars, indexVars, relabelVars>>

\* main, line 255: meta = parse_metadata_csv(args.metadata)
PrepParseMetadata ==
    /\ ppc = "validated"
    /\ LET got == prep_parse_metadata_csv(prep_csv) IN
       /\ prep_meta' = got.meta
       /\ prep_error' = got.error
       /\ ppc' = IF got.error = NoError THEN "parsed" ELSE "failed"
    /\ UNCHANGED <<prep_csv, prep_ref, validated, prep_index, out_rows, prep_preferred>>
    /\ UNCHANGED <<normVars, treeVars, geneVars, lookupVars, valVars, indexVars, relabelVars>>

\* main, line 256: labelkey_to_code, code_to_taxon = load_five_letter(...)
PrepLoadIndex ==
    /\ ppc = "parsed"
    /\ LET idx == prep_load_five_letter(prep_ref) IN
       IF idx.ok
       THEN /\ prep_index' = [labelkey_to_code |-> idx.labelkey_to_code,
                              code_to_taxon |-> idx.code_to_taxon, returned |-> TRUE]
            /\ ppc' = "loaded"
       ELSE ppc' = "failed" /\ UNCHANGED prep_index
    /\ UNCHANGED <<prep_csv, prep_ref, validated, prep_error, prep_meta, out_rows,
                   prep_preferred>>
    /\ UNCHANGED <<normVars, treeVars, geneVars, lookupVars, valVars, indexVars, relabelVars>>

\* main, line 257: build_output_metadata(meta, labelkey_to_code)
BuildOutputMetadata ==
    /\ ppc = "loaded"
    /\ out_rows' = build_output_rows(prep_meta, prep_index.labelkey_to_code)
    /\ prep_preferred' = build_output_preferred(prep_meta, prep_index.labelkey_to_code)
    /\ ppc' = "built"
    /\ UNCHANGED <<prep_csv, prep_ref, validated, prep_error, prep_meta, prep_index>>
    /\ UNCHANGED <<normVars, treeVars, geneVars, lookupVars, valVars, indexVars, relabelVars>>

PrepNext == ValidateFiles \/ PrepParseMetadata \/ PrepLoadIndex \/ BuildOutputMetadata

SpecPrep == PrepInit /\ [][PrepNext]_vars

\* the validator's output-constraint stage accepted the row set
Accepted == validated.checked /\ validated.constraints = NoError
OutLabel(i) == out_rows[i][2]

\* C16: for every row set the validator's output-constraint stage accepts,
\* the output labels build_output_metadata computes for those rows are
\* pairwise distinct, non-empty and made of [A-Za-z0-9_] only.
C16_CanonicalLabelsUnique ==
    (ppc = "built" /\ Accepted) =>
        /\ prep_meta.rows = validated.parsed.meta.rows
        /\ Len(out_rows) = Len(prep_meta.rows)
        /\ \A i, j \in DOMAIN out_rows : i # j => OutLabel(i) # OutLabel(j)
        /\ \A i \in DOMAIN out_rows :
              /\ OutLabel(i) # <<>>
              /\ \A k \in DOMAIN OutLabel(i) : IsWord(OutLabel(i)[k])

\* C16 witness: two accepted rows whose output labels both differ from the
\* raw labels they were computed from.
C16_Witness ==
    /\ ppc = "built" /\ Accepted
    /\ Len(out_rows) = 2
    /\ \A i \in DOMAIN out_rows : OutLabel(i) # prep_meta.rows[i][prep_meta.label_col]
    /\ OutLabel(1) # OutLabel(2)

\* the table with every short data row padded with empty cells
PaddedCsv(rows) ==
    [k \in DOMAIN rows |->
        IF k >= 3 /\ Len(rows[k]) < Len(rows[1])
        THEN rows[k] \o [i \in 1..(Len(rows[1]) - Len(rows[k])) |-> <<>>]
        ELSE rows[k]]

HasLongRow(rows) == \E k \in 3..Len(rows) : Len(rows[k]) > Len(rows[1])
HasShortRow(rows) == \E k \in 3..Len(rows) : Len(rows[k]) < Len(rows[1])
AllCellsEmpty(raw) == \A i \in DOMAIN raw : Strip(raw[i]) = <<>>
CountedRows(rows) == {k \in 3..Len(rows) : ~AllCellsEmpty(rows[k])}
BothParsed == ppc \notin {"start", "validated"}

PrepHeaderOk(rows) ==
    /\ Len(rows) >= 3
    /\ Len(rows[1]) = Len(rows[2])
    /\ \E i \in DOMAIN rows[1] : Lower(Strip(rows[1][i])) = T_label
    /\ \E i \in DOMAIN rows[1] : Lower(Strip(rows[1][i])) = T_accession

\* C17: in both parsers a short data row behaves exactly as the same row
\* padded with empty cells and is accepted; a data row longer than the
\* header makes the parse fail; a row whose cells are all empty is skipped
\* and is not counted as a data row.
C17_RowShape ==
    BothParsed =>
        /\ LET padded == prep_parse_metadata_csv(PaddedCsv(prep_csv)) IN
           prep_error = padded.error /\ prep_meta = padded.meta
        /\ validated.parsed = val_parse_metadata_csv(PaddedCsv(prep_csv))
        /\ HasLongRow(prep_csv) =>
              prep_error # NoError /\ validated.parsed.error # NoError
        /\ (PrepHeaderOk(prep_csv) /\ ~HasLongRow(prep_csv)
              /\ CountedRows(prep_csv) # {}) => prep_error = NoError
        /\ prep_error = NoError =>
              Len(prep_meta.rows) = Cardinality(CountedRows(prep_csv))
        /\ validated.parsed.error = NoError =>
              Len(validated.parsed.meta.rows) = Cardinality(CountedRows(prep_csv))

\* C17 witness: a table with a short row and an all-empty row was accepted
\* by both parsers with one data row, the short row padded.
C17_Witness ==
    /\ BothParsed
    /\ prep_error = NoError /\ validated.parsed.error = NoError
    /\ HasShortRow(prep_csv)
    /\ \E k \in 3..Len(prep_csv) : prep_csv[k] # <<>> /\ AllCellsEmpty(prep_csv[k])
    /\ Len(prep_meta.rows) = 1
    /\ prep_meta.rows[1][T_note] = <<>>
    /\ validated.parsed.meta.rows = prep_meta.rows

\* the metadata rows whose label has an empty comparison key
EmptyKeyRows(m) == {i \in DOMAIN m.rows : clean_alnum(m.rows[i][m.label_col]) = <<>>}
WithoutEmptyKeyRows(m) ==
    [m EXCEPT !.rows = SelectSeq(m.rows, LAMBDA r : clean_alnum(r[m.label_col]) # <<>>)]

\* C18: an empty comparison key is never a match.  Whatever the reference
\* table holds, a metadata row whose label has an empty comparison key is
\* written as a Readset and records no preferred label, the validator
\* counts it as a readset, and the lookup builder proposes no code for it.
C18_EmptyKeyNoMatch ==
    ppc = "built" =>
        /\ \A i \in EmptyKeyRows(prep_meta) : out_rows[i][3] = T_Readset
        /\ prep_preferred =
              build_output_preferred(WithoutEmptyKeyRows(prep_meta),
                                     prep_index.labelkey_to_code)
        /\ validated.checked =>
              validated.read_count >= Cardinality(EmptyKeyRows(validated.parsed.meta))
        /\ \A i \in EmptyKeyRows(prep_meta) :
              LET row == [match |-> prep_meta.rows[i][prep_meta.label_col],
                          label |-> prep_meta.rows[i][prep_meta.label_col]]
              IN  CandidateIds(row, load_five_letter_codes(prep_ref))
                      = CandidateIds(row, EmptyDict)

\* the collisions the lookup builder counts over rows matched by label with
\* an empty reference index: a row proposing a candidate that an earlier
\* row bound to another label
LabelRows(m) ==
    [i \in DOMAIN m.rows |->
        [match |-> m.rows[i][m.label_col], label |-> m.rows[i][m.label_col]]]
LabelCollisions(rows) ==
    {<<i, c>> \in (DOMAIN rows) \X UNION {CandidateIds(rows[k], EmptyDict) : k \in DOMAIN rows} :
        /\ c # <<>>
        /\ ~RowSkipped(rows[i]) /\ c \in CandidateIds(rows[i], EmptyDict)
        /\ \E j \in 1..(i - 1) :
              /\ ~RowSkipped(rows[j]) /\ c \in CandidateIds(rows[j], EmptyDict)
              /\ \A h \in 1..(j - 1) :
                    RowSkipped(rows[h]) \/ c \notin CandidateIds(rows[h], EmptyDict)
              /\ Strip(rows[j].label) # Strip(rows[i].label)}

\* the rows that record the preferred label of a code
RowsOfCode(m, k2c, code) ==
    {i \in DOMAIN m.rows :
        /\ clean_alnum(m.rows[i][m.label_col]) \in DOMAIN k2c
        /\ k2c[clean_alnum(m.rows[i][m.label_col])] = code}

\* C20: the validator rules out every collision the relabelers could make
\* from labels.  In a row set the output-constraint stage accepts no two raw
\* labels have the same comparison key, so each code's preferred label is
\* recorded from at most one row and the lookup built from the labels
\* counts no collision.
C20_ValidatorRulesOutCollisions ==
    (ppc = "built" /\ Accepted) =>
        /\ \A i, j \in DOMAIN prep_meta.rows :
              i # j => clean_alnum(prep_meta.rows[i][prep_meta.label_col])
                          # clean_alnum(prep_meta.rows[j][prep_meta.label_col])
        /\ \A code \in DOMAIN prep_preferred :
              Cardinality(RowsOfCode(prep_meta, prep_index.labelkey_to_code, code)) <= 1
        /\ LabelCollisions(LabelRows(prep_meta)) = {}

-----------------------------------------------------------------------------
(* validate_metadata.main: the stages in the order main calls them.  The   *)
(* files are read by the stage that opens them.                            *)

MaxRows == 2
MaxRefLines == 2

HeadTypePairs ==
    { << <<T_label, T_accession>>, <<T_character, T_character>> >>,
      << <<<<"L", "a", "b", "e", "l">>, T_accession>>, <<T_character, <<"D", "a", "t", "e">>>> >>,
      << <<T_label, T_accession>>, <<T_character>> >>,
      << <<T_label, T_accession>>, <<T_character, <<"l", "o", "g", "i", "c", "a", "l">>>> >>,
      << <<T_label>>, <<T_character>> >>,
      << <<T_accession>>, <<T_character>> >> }

LabelCells == { <<>>, <<"X">>, <<"X", "_", "1">>, <<"X", "#">>, <<"X", ",">>, <<"Y">> }
AccessionCells == { <<>>, <<"a">>, <<"b">>, <<"a", ",">> }

DataRowChoices ==
    {<<l, a>> : l \in LabelCells, a \in AccessionCells}
        \cup { <<>>, << <<"X">> >>, << <<"X">>, <<"a">>, <<"x">> >>,
               << <<"Y">>, <<"b">>, <<>> >> }

CsvInputs ==
    {ht \o data : ht \in HeadTypePairs, data \in SeqsUpTo(DataRowChoices, MaxRows)}

RefLineChoices ==
    {<<tx, cd>> : tx \in {<<"X">>, <<"X", "#">>, <<"Y">>}, cd \in {<<"C">>, <<"D">>}}
        \cup { <<>>, << <<"#", "c">> >>, << <<"X">> >> }

RefTables == SeqsUpTo(RefLineChoices, MaxRefLines)

CovFile(stem) == [stem |-> stem, has_suffix |-> TRUE, is_file |-> TRUE]

CovDirs ==
    { NoDir,
      [exists |-> TRUE, is_dir |-> FALSE, entries |-> {}],
      [exists |-> TRUE, is_dir |-> TRUE, entries |-> {}],
      [exists |-> TRUE, is_dir |-> TRUE, entries |-> {CovFile(<<"X">>)}],
      [exists |-> TRUE, is_dir |-> TRUE, entries |-> {CovFile(<<"Y">>), CovFile(<<"X">>)}],
      [exists |-> TRUE, is_dir |-> TRUE,
       entries |-> {CovFile(<<"X", "_", "1">>), CovFile(<<>>),
                    [stem |-> <<"Y">>, has_suffix |-> FALSE, is_file |-> TRUE],
                    [stem |-> <<"Z">>, has_suffix |-> TRUE, is_file |-> FALSE]}] }

ValInit ==
    /\ vpc = "parse_metadata_csv"
    /\ csv_rows = <<>> /\ meta = NoMeta /\ ref_lines = <<>> /\ line_i = 0
    /\ labelkey_to_code = EmptyDict /\ code_to_taxon = EmptyDict /\ seen_codes = {}
    /\ index = NoIndex /\ cov_dir = NoDir /\ readset_names = <<>> /\ error = NoError
    /\ exit_status = -1 /\ ran = <<>>
    /\ NormIdle /\ TreeIdle /\ GeneIdle /\ LookupIdle /\ RestIdle

\* mutant of MainExcept: the handler logs the error and forgets sys.exit(1)
MainExceptNoExit(err) ==
    /\ error' = err
    /\ exit_status' = 0
    /\ vpc' = "exited"

\* main, lines 295-297: except Exception: log_error(...); sys.exit(1)
MainExcept(err) ==
    /\ error' = err
    /\ exit_status' = 1
    /\ vpc' = "exited"

\* main, line 299: the try block ended; the process ends with status 0
MainCompleted ==
    /\ exit_status' = 0
    /\ vpc' = "exited"
    /\ UNCHANGED error

ParseMetadata ==
    /\ vpc = "parse_metadata_csv"
    /\ \E rows \in CsvInputs :
          LET got == val_parse_metadata_csv(rows) IN
          /\ csv_rows' = rows
          /\ IF got.error = NoError
             THEN /\ meta' = got.meta
                  /\ vpc' = "load_five_letter"
                  /\ UNCHANGED <<error, exit_status>>
             ELSE /\ MainExcept(got.error)
                  /\ UNCHANGED meta
    /\ ran' = Append(ran, "parse_metadata_csv")
    /\ UNCHANGED <<ref_lines, line_i, labelkey_to_code, code_to_taxon, seen_codes, index,
                   cov_dir, readset_names>>
    /\ UNCHANGED <<normVars, treeVars, geneVars, lookupVars, restVars>>

\* load_five_letter, lines 163-167: empty maps, the file is opened
OpenFiveLetter ==
    /\ vpc = "load_five_letter"
    /\ \E lines \in RefTables : ref_lines' = lines
    /\ line_i' = 1
    /\ labelkey_to_code' = EmptyDict /\ code_to_taxon' = EmptyDict /\ seen_codes' = {}
    /\ vpc' = "load_five_letter_lines"
    /\ ran' = Append(ran, "load_five_letter")
    /\ UNCHANGED <<csv_rows, meta, index, cov_dir, readset_names, error, exit_status>>
    /\ UNCHANGED <<normVars, treeVars, geneVars, lookupVars, restVars>>

\* mutant of CodeSeen: the seen_codes test is dropped
CodeSeenNever(code, seen) == FALSE

\* line 178
CodeSeen(code, seen) == code \in seen

\* line 183
KeyTaken(label_key, k2c) == label_key \in DOMAIN k2c

\* load_five_letter, lines 168-190: one line of the file
LoadFiveLetterLine ==
    /\ vpc = "load_five_letter_lines"
    /\ line_i <= Len(ref_lines)
    /\ LET line == ref_lines[line_i] IN
       IF ~IsEntryLine(line)
       THEN UNCHANGED <<labelkey_to_code, code_to_taxon, seen_codes, vpc, error, exit_status>>
       ELSE IF Len(line) # 2
       THEN /\ MainExcept(Err("InvalidRefLine", 3, <<Decimal(line_i)>>))
            /\ UNCHANGED <<labelkey_to_code, code_to_taxon, seen_codes>>
       ELSE LET taxon == Strip(line[1])
                code == Strip(line[2])
                label_key == clean_alnum(taxon)
            IN  IF CodeSeen(code, seen_codes)
                THEN /\ MainExcept(Err("DuplicateCode", 3, <<code>>))
                     /\ UNCHANGED <<labelkey_to_code, code_to_taxon, seen_codes>>
                ELSE IF KeyTaken(label_key, labelkey_to_code)
                THEN /\ MainExcept(Err("CollidingTaxon", 3,
                                       <<taxon, code_to_taxon[labelkey_to_code[label_key]]>>))
                     /\ seen_codes' = seen_codes \cup {code}
                     /\ UNCHANGED <<labelkey_to_code, code_to_taxon>>
                ELSE /\ seen_codes' = seen_codes \cup {code}
                     /\ labelkey_to_code' = DictSet(labelkey_to_code, label_key, code)
                     /\ code_to_taxon' = DictSet(code_to_taxon, code, taxon)
                     /\ UNCHANGED <<vpc, error, exit_status>>
    /\ line_i' = line_i + 1
    /\ UNCHANGED <<csv_rows, meta, ref_lines, index, cov_dir, readset_names, ran>>
    /\ UNCHANGED <<normVars, treeVars, geneVars, lookupVars, restVars>>

\* load_five_letter, lines 192-193: the two maps are returned to main
LoadFiveLetterReturn ==
    /\ vpc = "load_five_letter_lines"
    /\ line_i > Len(ref_lines)
    /\ index' = [labelkey_to_code |-> labelkey_to_code, code_to_taxon |-> code_to_taxon,
                 returned |-> TRUE]
    /\ vpc' = "load_readsets_from_cov"
    /\ UNCHANGED <<csv_rows, meta, ref_lines, line_i, labelkey_to_code, code_to_taxon,
                   seen_codes, cov_dir, readset_names, error, exit_status, ran>>
    /\ UNCHANGED <<normVars, treeVars, geneVars, lookupVars, restVars>>

LoadReadsets ==
    /\ vpc = "load_readsets_from_cov"
    /\ \E dir \in CovDirs :
          LET got == load_readsets_from_cov(dir) IN
          /\ cov_dir' = dir
          /\ IF got.error = NoError
             THEN /\ readset_names' = got.names
                  /\ vpc' = "validate_reference_coverage"
                  /\ UNCHANGED <<error, exit_status>>
             ELSE /\ MainExcept(got.error)
                  /\ UNCHANGED readset_names
    /\ ran' = Append(ran, "load_readsets_from_cov")
    /\ UNCHANGED <<csv_rows, meta, ref_lines, line_i, labelkey_to_code, code_to_taxon,
                   seen_codes, index>>
    /\ UNCHANGED <<normVars, treeVars, geneVars, lookupVars, restVars>>

ValidateReferenceCoverage ==
    /\ vpc = "validate_reference_coverage"
    /\ LET err == validate_reference_coverage(meta, index.labelkey_to_code,
                                              index.code_to_taxon) IN
       IF err = NoError
       THEN vpc' = "validate_readset_presence" /\ UNCHANGED <<error, exit_status>>
       ELSE MainExcept(err)
    /\ ran' = Append(ran, "validate_reference_coverage")
    /\ UNCHANGED <<csv_rows, meta, ref_lines, line_i, labelkey_to_code, code_to_taxon,
                   seen_codes, index, cov_dir, readset_names>>
    /\ UNCHANGED <<normVars, treeVars, geneVars, lookupVars, restVars>>

ValidateReadsetPresence ==
    /\ vpc = "validate_readset_presence"
    /\ LET err == validate_readset_presence(meta, readset_names) IN
       IF err = NoError
       THEN vpc' = "validate_output_constraints" /\ UNCHANGED <<error, exit_status>>
       ELSE MainExcept(err)
    /\ ran' = Append(ran, "validate_readset_presence")
    /\ UNCHANGED <<csv_rows, meta, ref_lines, line_i, labelkey_to_code, code_to_taxon,
                   seen_codes, index, cov_dir, readset_names>>
    /\ UNCHANGED <<normVars, treeVars, geneVars, lookupVars, restVars>>

ValidateOutputConstraints ==
    /\ vpc = "validate_output_constraints"
    /\ LET err == validate_output_constraints(meta) IN
       IF err = NoError THEN MainCompleted ELSE MainExcept(err)
    /\ ran' = Append(ran, "validate_output_constraints")
    /\ UNCHANGED <<csv_rows, meta, ref_lines, line_i, labelkey_to_code, code_to_taxon,
                   seen_codes, index, cov_dir, readset_names>>
    /\ UNCHANGED <<normVars, treeVars, geneVars, lookupVars, restVars>>

ValNext ==
    \/ ParseMetadata
    \/ OpenFiveLetter
    \/ LoadFiveLetterLine
    \/ LoadFiveLetterReturn
    \/ LoadReadsets
    \/ ValidateReferenceCoverage
    \/ ValidateReadsetPresence
    \/ ValidateOutputConstraints

SpecVal == ValInit /\ [][ValNext]_vars

-----------------------------------------------------------------------------
(* Properties of the validator                                             *)

StageOrder ==
    <<"parse_metadata_csv", "load_five_letter", "load_readsets_from_cov",
      "validate_reference_coverage", "validate_readset_presence",
      "validate_output_constraints">>

LastRan == IF ran = <<>> THEN "none" ELSE ran[Len(ran)]
Failed == vpc = "exited" /\ exit_status = 1
FailedIn(stage) == Failed /\ LastRan = stage

\* what the input violates, stage by stage, read off the files themselves
HeaderViolation(rows) ==
    \/ Len(rows) < 3
    \/ Len(rows[1]) # Len(rows[2])
    \/ \E i \in DOMAIN rows[2] : Lower(Strip(rows[2][i])) \notin VALID_TYPES
    \/ \A i \in DOMAIN rows[1] : Lower(Strip(rows[1][i])) # T_label
    \/ \A i \in DOMAIN rows[1] : Lower(Strip(rows[1][i])) # T_accession

RowShapeViolation(rows) == \E k \in 3..Len(rows) : Len(rows[k]) > Len(rows[1])

IsDataRow(rows, k) ==
    /\ Len(rows[k]) <= Len(rows[1])
    /\ \E i \in DOMAIN rows[k] : Strip(rows[k][i]) # <<>>

FieldViolation(rows) ==
    \E k \in 3..Len(rows) :
        /\ IsDataRow(rows, k)
        /\ LET row == RowDict([i \in DOMAIN rows[1] |-> Strip(rows[1][i])],
                              PadRow(rows[k], Len(rows[1])))
               lower_map == LowerMap([i \in DOMAIN rows[1] |-> Strip(rows[1][i])])
           IN  \/ row[lower_map[T_label]] = <<>>
               \/ HasComma(row[lower_map[T_label]])
               \/ row[lower_map[T_accession]] = <<>>
               \/ HasComma(row[lower_map[T_accession]])

StageViolated(j) ==
    CASE j = 1 -> \/ HeaderViolation(csv_rows)
                  \/ RowShapeViolation(csv_rows)
                  \/ \A k \in 3..Len(csv_rows) : ~IsDataRow(csv_rows, k)
      [] j = 2 -> ~HeaderViolation(csv_rows) /\ FieldViolation(csv_rows)
      [] j = 3 -> /\ index.returned
                  /\ validate_reference_coverage(meta, index.labelkey_to_code,
                                                 index.code_to_taxon) # NoError
      [] j = 4 -> /\ readset_names # <<>>
                  /\ validate_readset_presence(meta, readset_names) # NoError
      [] OTHER -> FALSE

\* C3: the validator's stages are gated in the order structural parse,
\* per-row field checks, reference coverage, readset coverage, output
\* constraints: the failure a run reports is that of the lowest-numbered
\* stage its input violates.
C3_LowestStageReported ==
    Failed => \A j \in 1..(error.stage - 1) : ~StageViolated(j)

\* the entry lines of the reference table, and what is wrong with them
EntryLines == SelectSeq(ref_lines, IsEntryLine)
WellFormed == \A i \in DOMAIN EntryLines : Len(EntryLines[i]) = 2
TaxonAt(i) == Strip(EntryLines[i][1])
CodeAt(i) == Strip(EntryLines[i][2])
CodeRepeats ==
    \E i, j \in DOMAIN EntryLines : i < j /\ CodeAt(i) = CodeAt(j)
KeyRepeats ==
    \E i, j \in DOMAIN EntryLines :
        i < j /\ clean_alnum(TaxonAt(i)) = clean_alnum(TaxonAt(j))
DistinctTaxaCollide ==
    \E i, j \in DOMAIN EntryLines :
        /\ i < j /\ TaxonAt(i) # TaxonAt(j)
        /\ clean_alnum(TaxonAt(i)) = clean_alnum(TaxonAt(j))

LoadEnded == index.returned \/ FailedIn("load_five_letter")

\* what each stage decides, stated on the inputs the run has read
ParsePasses == ~HeaderViolation(csv_rows) /\ ~StageViolated(1) /\ ~FieldViolation(csv_rows)
IndexPasses == WellFormed /\ ~CodeRepeats /\ ~KeyRepeats
DiscoveryPasses ==
    /\ cov_dir.exists /\ cov_dir.is_dir
    /\ \E e \in cov_dir.entries : e.has_suffix /\ e.is_file /\ e.stem # <<>>
MetaKeys == {clean_alnum(l) : l \in MetaLabels(meta)}
ReferenceCoveragePasses ==
    \A i \in DOMAIN EntryLines : clean_alnum(TaxonAt(i)) \in MetaKeys
ReadsetCoveragePasses ==
    \A e \in cov_dir.entries :
        (e.has_suffix /\ e.is_file /\ e.stem # <<>>) => e.stem \in MetaLabels(meta)
OutputConstraintsPass ==
    \A i, j \in DOMAIN meta.rows :
        i < j =>
            /\ meta.rows[i][meta.label_col] # meta.rows[j][meta.label_col]
            /\ meta.rows[i][meta.accession_col] # meta.rows[j][meta.accession_col]
            /\ clean_alnum(label_final_of(meta.rows[i][meta.label_col]))
                   # clean_alnum(label_final_of(meta.rows[j][meta.label_col]))

StagePasses(stage) ==
    CASE stage = "parse_metadata_csv" -> ParsePasses
      [] stage = "load_five_letter" -> IndexPasses
      [] stage = "load_readsets_from_cov" -> DiscoveryPasses
      [] stage = "validate_reference_coverage" -> ReferenceCoveragePasses
      [] stage = "validate_readset_presence" -> ReadsetCoveragePasses
      [] stage = "validate_output_constraints" -> OutputConstraintsPass
      [] OTHER -> FALSE

\* C4: a run completes all stages or aborts on the first failure.  The
\* stages run in main's order; a run that has failed ran exactly the stages
\* up to the first one its input fails, ends with status 1 and takes no
\* further step; it ends with status 0 exactly when all six stages ran and
\* passed.
C4_CompletesOrAborts ==
    /\ Len(ran) <= Len(StageOrder) /\ ran = SubSeq(StageOrder, 1, Len(ran))
    /\ vpc # "exited" => exit_status = -1 /\ error = NoError
    /\ vpc = "exited" =>
          /\ exit_status \in {0, 1}
          /\ ~ENABLED ValNext
          /\ \A k \in 1..(Len(ran) - 1) : StagePasses(ran[k])
          /\ exit_status = 1 <=> ~StagePasses(LastRan)
          /\ exit_status = 1 <=> error # NoError
          /\ exit_status = 0 <=> (ran = StageOrder /\ \A k \in DOMAIN ran : StagePasses(ran[k]))

\* C4 witnesses: a run aborted by the reference coverage stage after three
\* stages passed, with the two later stages never run.
C4_Witness ==
    /\ FailedIn("validate_reference_coverage")
    /\ Len(ran) = 4
    /\ error.kind = "ReferenceCoverage"

\* C5: the reference coverage stage passes exactly when every comparison
\* key of the index is the comparison key of some metadata label, and when
\* it fails the error lists exactly the taxon names of the index entries
\* whose key no metadata label has.
C5_ReferenceCoverage ==
    Len(ran) >= 4 =>
        LET missing == {TaxonAt(i) : i \in {k \in DOMAIN EntryLines :
                                            clean_alnum(TaxonAt(k)) \notin MetaKeys}}
        IN  /\ FailedIn("validate_reference_coverage")
                <=> ~(\A k \in DOMAIN index.labelkey_to_code : k \in MetaKeys)
            /\ FailedIn("validate_reference_coverage") =>
                  /\ error.kind = "ReferenceCoverage"
                  /\ Range(error.names) = missing
                  /\ Len(error.names) = Cardinality(missing)
            /\ Len(ran) = 4 /\ ~Failed => missing = {}

\* C5 witness: the index holds two taxa, the metadata covers one of them,
\* and the error names exactly the other.
C5_Witness ==
    /\ FailedIn("validate_reference_coverage")
    /\ Cardinality(DOMAIN index.code_to_taxon) = 2
    /\ error.names = << <<"Y">> >>
    /\ <<"X">> \in MetaKeys

RowLabel(i) == meta.rows[i][meta.label_col]
RowAccession(i) == meta.rows[i][meta.accession_col]
SanitizedKey(label) == clean_alnum(tree_label_sanitize(label))
RawLabelsDistinct == \A i, j \in DOMAIN meta.rows : i # j => RowLabel(i) # RowLabel(j)
AccessionsDistinct ==
    \A i, j \in DOMAIN meta.rows : i # j => RowAccession(i) # RowAccession(j)
SanitizedKeysDistinct ==
    \A i, j \in DOMAIN meta.rows : i # j => SanitizedKey(RowLabel(i)) # SanitizedKey(RowLabel(j))

\* C14: the output-constraint stage succeeds iff the raw labels are
\* pairwise distinct, the accessions are pairwise distinct and no two rows
\* have sanitized labels with the same comparison key; when it fails the
\* error names the repeated label, the repeated accession, or the two raw
\* labels that collide.
C14_OutputConstraints ==
    LastRan = "validate_output_constraints" =>
        /\ exit_status = 0 <=>
              (RawLabelsDistinct /\ AccessionsDistinct /\ SanitizedKeysDistinct)
        /\ exit_status = 1 =>
              /\ error.kind \in {"DuplicateLabel", "DuplicateAccession", "LabelCollision"}
              /\ error.kind = "DuplicateLabel" =>
                    \E i, j \in DOMAIN meta.rows :
                        i < j /\ RowLabel(i) = RowLabel(j) /\ error.names = <<RowLabel(j)>>
              /\ error.kind = "DuplicateAccession" =>
                    \E i, j \in DOMAIN meta.rows :
                        /\ i < j /\ RowAccession(i) = RowAccession(j)
                        /\ error.names = <<RowAccession(j)>>
              /\ error.kind = "LabelCollision" =>
                    \E i, j \in DOMAIN meta.rows :
                        /\ i < j /\ RowLabel(i) # RowLabel(j)
                        /\ SanitizedKey(RowLabel(i)) = SanitizedKey(RowLabel(j))
                        /\ error.names = <<RowLabel(j), RowLabel(i)>>

\* C14 witness: two rows with different raw labels and accessions were
\* rejected because their sanitized labels share a comparison key.
C14_Witness ==
    /\ FailedIn("validate_output_constraints")
    /\ error.kind = "LabelCollision"
    /\ Len(meta.rows) = 2
    /\ RowLabel(1) # RowLabel(2) /\ RowAccession(1) # RowAccession(2)
    /\ error.names = <<RowLabel(2), RowLabel(1)>>

=============================================================================
